---- MODULE Spec2Model ----
(***************************************************************************)
(* A model of the FAT16/FAT32 core of embedded-sdmmc-rs: the FAT entry     *)
(* codec and cluster chain, the cluster -> sector iterator, the single     *)
(* sector byte cache, the streaming read of an open file, the directory    *)
(* iterator, the open-handle table of a volume and the deletion of a file. *)
(***************************************************************************)
EXTENDS Integers, Sequences, FiniteSets, TLC

VARIABLES
    iter,          \* a sector or directory iterator being stepped
    yielded,       \* the items that iterator has yielded so far, in order
    partition,     \* the partition of a PartitionBlockDevice (lba_start, block_count)
    boot_sector,   \* the fields of sector 0 handed to BiosParameterBlock::new
    bpb,           \* geometry of the mounted volume (BiosParameterBlock)
    fat,           \* device: the FAT copies, fat[copy][cluster] = stored word
    dir,           \* device: the slots of the parent directory's sector
    open_entries,  \* FatVolume: the open-handle table, slot -> None | (fd, info)
    fd,            \* FatVolume: the next file descriptor
    files,         \* the File values the caller holds
    file,          \* the File a streaming read works on (read specification)
    delivered,     \* sum of the byte counts returned by read since open/reset
    result         \* what the last operation returned

vars == <<iter, yielded, partition, boot_sector, bpb, fat, dir, open_entries, fd, files, file, delivered, result>>

None == [none |-> TRUE]
Some(v) == [some |-> v]
\* Result::Err of a device access
Err == [err |-> TRUE]

Min(a, b) == IF a <= b THEN a ELSE b

\* The element of a one-element set.  { e(x) : x \in {v} } evaluates v once and
\* binds x to its value, so Only({ e(x) : x \in {v} }) is LET x == v IN e(x).
Only(S) == CHOOSE v \in S : TRUE

(***************************************************************************)
(* Bounds of the model.                                                    *)
(***************************************************************************)
\* Clusters 0..MaxCluster have a FAT entry on the modelled device.
MaxCluster == 4
\* Number of slots of the open-handle table (the crate's default is larger).
MAX_FILES == 2
\* Number of distinct values of the usize file descriptor (2^w, scaled down).
FdModulus == 3

(***************************************************************************)
(* Block device.                                                           *)
(***************************************************************************)
Block_LEN == 512

(***************************************************************************)
(* FAT entries: fat/mod.rs, Entry.                                         *)
(***************************************************************************)
FREE == 0
FAT32_BAD == 268435447                    \* 0xFFFFFF7
\* 0xFFFFFFFF (eight hex digits in the source) as its (high, low) 16-bit halves
FAT32_FINAL == <<65535, 65535>>
FAT32_RESERVED_RANGE_START == 268435448   \* 0xFFFFFF8
FAT32_RESERVED_RANGE_END == 268435454     \* 0xFFFFFFE
FAT16_BAD == 65527                        \* 0xFFF7
FAT16_FINAL == 65535                      \* 0xFFFF
FAT16_RESERVED_RANGE_START == 65528       \* 0xFFF8
FAT16_RESERVED_RANGE_END == 65534         \* 0xFFFE
Mask28 == 268435456                       \* x % Mask28 is x & 0x0FFFFFFF

Entry_is_free(value, fat_type) ==
    IF fat_type = "Fat16" THEN value = FREE
    ELSE (value % Mask28) = FREE

Entry_is_final(value, fat_type) ==
    IF fat_type = "Fat16"
    THEN \/ value = FAT16_FINAL
         \/ (value >= FAT16_RESERVED_RANGE_START /\ value <= FAT16_RESERVED_RANGE_END)
    ELSE \/ /\ (value % Mask28) \div 65536 = FAT32_FINAL[1]
            /\ (value % Mask28) % 65536 = FAT32_FINAL[2]
         \/ (value >= FAT32_RESERVED_RANGE_START /\ value <= FAT32_RESERVED_RANGE_END)

(***************************************************************************)
(* Geometry: fat/bios_param_block.rs.                                      *)
(***************************************************************************)
fat_start(b) == b.reserved_sector_count
fat_len(b) == b.num_fats * b.fat_size
root_start(b) == fat_start(b) + fat_len(b)
compute_root_dir_sectors(root_entry_count, bytes_per_sector) ==
    ((root_entry_count * 32) + (bytes_per_sector - 1)) \div bytes_per_sector
root_len(b) ==
    IF b.fat_type = "Fat16"
    THEN compute_root_dir_sectors(b.root_entry_count, b.bytes_per_sector)
    ELSE 0
data_start(b) == root_start(b) + root_len(b)

(***************************************************************************)
(* The device.  It holds the reserved sectors, the FAT copies, the root    *)
(* region and the data clusters 2..MaxCluster; a block index past its end  *)
(* is refused with an error.  A FAT sector is addressed by its block       *)
(* index; words of the device outside the modelled FAT entries read zero.  *)
(***************************************************************************)
num_blocks(b) == data_start(b) + ((MaxCluster - 1) * b.sectors_per_cluster)

InRange(b, sector) == sector < num_blocks(b)

EntryWidth(fat_type) == IF fat_type = "Fat16" THEN 2 ELSE 4

\* The word stored at byte `offset` of device sector `sector`.
DeviceFatWord(b, f, sector, offset) ==
    LET rel  == sector - b.reserved_sector_count
        copy == (rel \div b.fat_size) + 1
        idx  == (((rel % b.fat_size) * b.bytes_per_sector) + offset)
                    \div EntryWidth(b.fat_type)
    IN  IF rel >= 0 /\ copy \in DOMAIN f /\ idx \in DOMAIN f[copy]
        THEN f[copy][idx] ELSE 0

\* The device with the word at (sector, offset) overwritten by `value`.
DeviceFatWrite(b, f, sector, offset, value) ==
    LET rel  == sector - b.reserved_sector_count
        copy == (rel \div b.fat_size) + 1
        idx  == (((rel % b.fat_size) * b.bytes_per_sector) + offset)
                    \div EntryWidth(b.fat_type)
    IN  IF rel >= 0 /\ copy \in DOMAIN f /\ idx \in DOMAIN f[copy]
        THEN [f EXCEPT ![copy][idx] = value] ELSE f

\* FatVolume::get_fat_entry: where the entry of `cluster` lies.
FatEntryLocation(b, fat_number, cluster) ==
    LET fat_offset   == cluster * EntryWidth(b.fat_type)
        sec_num      == b.reserved_sector_count + (fat_offset \div b.bytes_per_sector)
        entry_offset == fat_offset % b.bytes_per_sector
        sector       == IF fat_number = 1 THEN sec_num
                        ELSE (fat_number * b.fat_size) + sec_num
    IN  [sector |-> sector, byte_offset |-> entry_offset]

\* FatVolume::get_fat_entry with the slip of leaving out "& 0x0FFFFFFF".
get_fat_entry_NoMask(b, f, fat_number, cluster) ==
    LET loc  == FatEntryLocation(b, fat_number, cluster)
        word == DeviceFatWord(b, f, loc.sector, loc.byte_offset)
    IN  IF ~InRange(b, loc.sector) THEN Err
        ELSE IF loc.byte_offset + EntryWidth(b.fat_type) > Block_LEN THEN [panic |-> TRUE]
        ELSE IF b.fat_type = "Fat16" THEN Some(word % 65536) ELSE Some(word)

\* FatVolume::get_fat_entry: Err when the device refuses the sector,
\* [panic |-> TRUE] when the slice of the entry reaches beyond the block
\* read_block returned, else Some(the decoded entry value).
get_fat_entry(b, f, fat_number, cluster) ==
    LET loc  == FatEntryLocation(b, fat_number, cluster)
        word == DeviceFatWord(b, f, loc.sector, loc.byte_offset)
    IN  IF ~InRange(b, loc.sector) THEN Err
        ELSE IF loc.byte_offset + EntryWidth(b.fat_type) > Block_LEN THEN [panic |-> TRUE]
        ELSE IF b.fat_type = "Fat16" THEN Some(word % 65536) ELSE Some(word % Mask28)

\* Cluster::find_next with the slip of reporting a FREE entry as an error
\* instead of as the end of the chain.
find_next_cluster_FreeIsError(b, f, fat_number, cluster) ==
    LET my_entry == get_fat_entry(b, f, fat_number, cluster)
    IN  IF my_entry = Err THEN Err
        ELSE IF Entry_is_free(my_entry.some, b.fat_type) THEN Err
        ELSE IF Entry_is_final(my_entry.some, b.fat_type)
        THEN None ELSE Some(my_entry.some)

\* Cluster::find_next with the slip of testing is_final alone, which takes
\* a FREE entry for a pointer to cluster 0.
find_next_cluster_FinalOnly(b, f, fat_number, cluster) ==
    LET my_entry == get_fat_entry(b, f, fat_number, cluster)
    IN  IF my_entry = Err THEN Err
        ELSE IF Entry_is_final(my_entry.some, b.fat_type)
        THEN None ELSE Some(my_entry.some)

\* Cluster::find_next: Err, or the successor of `cluster`: None at FINAL or
\* FREE, else Some(next).
find_next_cluster(b, f, fat_number, cluster) ==
    LET my_entry == get_fat_entry(b, f, fat_number, cluster)
    IN  IF my_entry = Err THEN Err
        ELSE IF \/ Entry_is_final(my_entry.some, b.fat_type)
                \/ Entry_is_free(my_entry.some, b.fat_type)
        THEN None ELSE Some(my_entry.some)

(***************************************************************************)
(* Device accesses.  Every read_block or write is counted; the access      *)
(* numbered failAt fails (failAt = 0: the device never fails).             *)
(***************************************************************************)
AccessFails(ios, failAt) == failAt # 0 /\ ios + 1 = failAt

(***************************************************************************)
(* Cluster -> sector iterator: fat/cluster.rs.                             *)
(***************************************************************************)
saturating_sub(a, c) == IF a >= c THEN a - c ELSE 0

\* BlockIdx::range: the sectors start, start + 1, ..., start + num - 1.
BlockIdx_range(start, num) == [current |-> start, end |-> start + num]

\* Cluster::sectors with the slip of not scaling the cluster number by the
\* cluster size.
Cluster_sectors_NoScale(cluster, dstart, sectors_per_cluster) ==
    BlockIdx_range(dstart + saturating_sub(cluster, 2), sectors_per_cluster)

\* Cluster::sectors
Cluster_sectors(cluster, dstart, sectors_per_cluster) ==
    BlockIdx_range(dstart + (saturating_sub(cluster, 2) * sectors_per_cluster),
                   sectors_per_cluster)

\* ClusterSectorIterator::new
ClusterSectorIterator_new(fat_number, dstart, start, sectors_per_cluster) ==
    [fat_number |-> fat_number,
     sectors_per_cluster |-> sectors_per_cluster,
     data_start |-> dstart,
     current_cluster |-> start,
     current_cluster_sectors |-> Cluster_sectors(start, dstart, sectors_per_cluster)]

\* ClusterSectorIterator::next with the slip of moving to the next cluster
\* without yielding its first sector in the same call.
ClusterSectorIterator_next_NoYield(it, b, f, ios, failAt) ==
    LET ccs == it.current_cluster_sectors IN
    IF ccs.current < ccs.end
    THEN [it |-> [it EXCEPT !.current_cluster_sectors.current = ccs.current + 1],
          sector |-> Some(ccs.current), ios |-> ios]
    ELSE IF AccessFails(ios, failAt)
    THEN [it |-> it, sector |-> None, ios |-> ios + 1]
    ELSE LET nxt == find_next_cluster(b, f, it.fat_number, it.current_cluster) IN
         IF nxt = None \/ nxt = Err
         THEN [it |-> it, sector |-> None, ios |-> ios + 1]
         ELSE [it |-> [it EXCEPT !.current_cluster = nxt.some,
                                 !.current_cluster_sectors =
                                     Cluster_sectors(nxt.some, it.data_start,
                                                     it.sectors_per_cluster)],
               sector |-> None, ios |-> ios + 1]

\* ClusterSectorIterator::next: [it, sector (None at the end), ios].
ClusterSectorIterator_next(it, b, f, ios, failAt) ==
    LET ccs == it.current_cluster_sectors IN
    IF ccs.current < ccs.end
    THEN [it |-> [it EXCEPT !.current_cluster_sectors.current = ccs.current + 1],
          sector |-> Some(ccs.current), ios |-> ios]
    ELSE IF AccessFails(ios, failAt)
    THEN [it |-> it, sector |-> None, ios |-> ios + 1]
    ELSE LET nxt == find_next_cluster(b, f, it.fat_number, it.current_cluster) IN
         IF nxt = None \/ nxt = Err
         THEN [it |-> it, sector |-> None, ios |-> ios + 1]
         ELSE LET s == Cluster_sectors(nxt.some, it.data_start, it.sectors_per_cluster) IN
              IF s.current < s.end
              THEN [it |-> [it EXCEPT !.current_cluster = nxt.some,
                                      !.current_cluster_sectors =
                                          [s EXCEPT !.current = s.current + 1]],
                    sector |-> Some(s.current), ios |-> ios + 1]
              ELSE [it |-> [it EXCEPT !.current_cluster = nxt.some,
                                      !.current_cluster_sectors = s],
                    sector |-> None, ios |-> ios + 1]

\* FatVolume::all_sectors: the sectors of the chain that starts at `cluster`.
all_sectors(b, cluster) ==
    ClusterSectorIterator_new(1, data_start(b), cluster, b.sectors_per_cluster)

(***************************************************************************)
(* Byte cache: fat/block_byte_cache.rs.  The cached block is named by the  *)
(* sector it was read from.                                                *)
(***************************************************************************)
BlockByteCache_new(total_len_bytes, sectors) ==
    [sectors |-> sectors, byte_index |-> 0, current_cache |-> None,
     total_read |-> 0, total_len |-> total_len_bytes]

all_cached_bytes_read(c) ==
    LET read_all_bytes == IF c.total_len # None
                          THEN (c.total_len.some - c.total_read) = 0
                          ELSE FALSE
    IN  c.current_cache = None \/ read_all_bytes

feed(c, block) == [c EXCEPT !.current_cache = block, !.byte_index = 0]

\* BlockByteCache::more_data with the slip of fetching the next sector
\* without asking whether cached bytes are left.
more_data_AlwaysFetches(c, b, f, ios, failAt) ==
    Only({
        IF nx.sector # None
        THEN IF AccessFails(nx.ios, failAt) \/ ~InRange(b, nx.sector.some)
             THEN [cache |-> [c EXCEPT !.sectors = nx.it], ok |-> FALSE,
                   ios |-> nx.ios + 1]
             ELSE [cache |-> feed([c EXCEPT !.sectors = nx.it], nx.sector),
                   ok |-> TRUE, ios |-> nx.ios + 1]
        ELSE [cache |-> [c EXCEPT !.sectors = nx.it], ok |-> FALSE, ios |-> nx.ios]
        : nx \in {ClusterSectorIterator_next(c.sectors, b, f, ios, failAt)} })

\* BlockByteCache::more_data: [cache, ok, ios].
more_data(c, b, f, ios, failAt) ==
    IF all_cached_bytes_read(c)
    THEN Only({
            IF nx.sector # None
            THEN IF AccessFails(nx.ios, failAt) \/ ~InRange(b, nx.sector.some)
                 THEN [cache |-> [c EXCEPT !.sectors = nx.it], ok |-> FALSE,
                       ios |-> nx.ios + 1]
                 ELSE [cache |-> feed([c EXCEPT !.sectors = nx.it], nx.sector),
                       ok |-> TRUE, ios |-> nx.ios + 1]
            ELSE [cache |-> [c EXCEPT !.sectors = nx.it], ok |-> FALSE, ios |-> nx.ios]
            : nx \in {ClusterSectorIterator_next(c.sectors, b, f, ios, failAt)} })
    ELSE [cache |-> c, ok |-> TRUE, ios |-> ios]

\* BlockByteCache::reset with the slip of keeping the cumulative counter.
BlockByteCache_reset_KeepsCount(c, sectors) ==
    [c EXCEPT !.byte_index = 0, !.sectors = sectors, !.current_cache = None]

\* BlockByteCache::reset
BlockByteCache_reset(c, sectors) ==
    [c EXCEPT !.byte_index = 0, !.total_read = 0, !.sectors = sectors,
              !.current_cache = None]

\* BlockByteCache::read with the slip of not limiting the copy by what is
\* left of total_len.
BlockByteCache_read_NoCeiling(c, len) ==
    IF c.current_cache # None
    THEN LET data_to_read == Min(len, Block_LEN - c.byte_index)
             idx          == c.byte_index + data_to_read
         IN  [cache  |-> [c EXCEPT !.byte_index = idx,
                                   !.total_read = c.total_read + data_to_read,
                                   !.current_cache =
                                       IF idx = Block_LEN THEN None ELSE c.current_cache],
              n      |-> data_to_read,
              sector |-> c.current_cache,
              from   |-> c.byte_index]
    ELSE [cache |-> c, n |-> 0, sector |-> None, from |-> 0]

\* BlockByteCache::read into a buffer of `len` bytes: [cache, n, sector, from].
BlockByteCache_read(c, len) ==
    IF c.current_cache # None
    THEN LET total_left   == IF c.total_len # None
                             THEN c.total_len.some - c.total_read ELSE Block_LEN
             data_to_read == Min(Min(len, Block_LEN - c.byte_index), total_left)
             idx          == c.byte_index + data_to_read
         IN  [cache  |-> [c EXCEPT !.byte_index = idx,
                                   !.total_read = c.total_read + data_to_read,
                                   !.current_cache =
                                       IF idx = Block_LEN THEN None ELSE c.current_cache],
              n      |-> data_to_read,
              sector |-> c.current_cache,
              from   |-> c.byte_index]
    ELSE [cache |-> c, n |-> 0, sector |-> None, from |-> 0]

(***************************************************************************)
(* Directory entries: fat/directory.rs.                                    *)
(***************************************************************************)
DIRECTORY == 16
ARCHIVE == 32
LongNameBits == 15      \* READ_ONLY | HIDDEN | SYSTEM | VOLUME_ID

\* Attributes::is_dir
Attributes_is_dir(attributes) == ((attributes \div DIRECTORY) % 2) = 1

\* Attributes::is_long_name
Attributes_is_long_name(attributes) == (attributes % 16) = LongNameBits

\* PartialEq for DirEntryInfo with the slip of comparing the slot's place
\* instead of the first cluster.
DirEntryInfo_eq_Location(a, c) == a.location = c.location

\* PartialEq for DirEntryInfo
DirEntryInfo_eq(a, c) == a.first_cluster = c.first_cluster

(***************************************************************************)
(* File and the open-handle table of the volume: fat/file.rs.              *)
(***************************************************************************)
\* File::from_dir_entry with the slip of dropping the is_dir test.
File_from_dir_entry_NoDirTest(dir_entry, b, mode, new_fd) ==
    [dir_entry  |-> dir_entry,
     read_cache |-> BlockByteCache_new(Some(dir_entry.file_size),
                                       all_sectors(b, dir_entry.first_cluster)),
     mode |-> mode,
     fd   |-> new_fd]

\* File::from_dir_entry
File_from_dir_entry(dir_entry, b, mode, new_fd) ==
    IF ~Attributes_is_dir(dir_entry.attributes)
    THEN [dir_entry  |-> dir_entry,
          read_cache |-> BlockByteCache_new(Some(dir_entry.file_size),
                                            all_sectors(b, dir_entry.first_cluster)),
          mode |-> mode,
          fd   |-> new_fd]
    ELSE None

Slots == 1..MAX_FILES

EmptyTable == [i \in Slots |-> None]

Occupied(t) == {i \in DOMAIN t : t[i] # None}

\* FatVolume::file_is_open: a slot carries the file's fd.
file_is_open(t, f) == \E i \in Occupied(t) : t[i].fd = f.fd

\* FatVolume::dir_entry_is_open: a slot carries an equal DirEntryInfo.
dir_entry_is_open(t, e) == \E i \in Occupied(t) : DirEntryInfo_eq(t[i].info, e)

\* FatVolume::close_dir_entry: clear the matching slot.
close_dir_entry(t, e) ==
    [i \in DOMAIN t |->
        IF t[i] # None /\ DirEntryInfo_eq(t[i].info, e) THEN None ELSE t[i]]

FirstEmpty(t) == CHOOSE i \in DOMAIN t : t[i] = None /\ \A j \in DOMAIN t : t[j] = None => i <= j

\* FatVolume::open_file with the slip of taking the first slot without
\* looking for an empty one.
open_file_TakesFirstSlot(t, next_fd, b, dir_entry, mode) ==
    IF dir_entry_is_open(t, dir_entry)
    THEN [res |-> "AlreadyOpen", file |-> None, dir_entry |-> Some(dir_entry),
          open_entries |-> t, fd |-> next_fd]
    ELSE LET new == File_from_dir_entry(dir_entry, b, mode, next_fd) IN
         IF new = None
         THEN [res |-> "IsDirectory", file |-> None, dir_entry |-> Some(dir_entry),
               open_entries |-> t, fd |-> next_fd]
         ELSE [res |-> "Ok", file |-> new, dir_entry |-> None,
               open_entries |-> [t EXCEPT ![1] = [fd |-> next_fd, info |-> dir_entry]],
               fd |-> (next_fd + 1) % FdModulus]

\* FatVolume::open_file: [res, file, dir_entry, open_entries, fd].
open_file(t, next_fd, b, dir_entry, mode) ==
    IF dir_entry_is_open(t, dir_entry)
    THEN [res |-> "AlreadyOpen", file |-> None, dir_entry |-> Some(dir_entry),
          open_entries |-> t, fd |-> next_fd]
    ELSE LET new == File_from_dir_entry(dir_entry, b, mode, next_fd) IN
         IF new = None
         THEN [res |-> "IsDirectory", file |-> None, dir_entry |-> Some(dir_entry),
               open_entries |-> t, fd |-> next_fd]
         ELSE IF \A i \in DOMAIN t : t[i] # None
         THEN [res |-> "TooManyOpenFiles", file |-> None, dir_entry |-> Some(dir_entry),
               open_entries |-> t, fd |-> (next_fd + 1) % FdModulus]
         ELSE [res |-> "Ok", file |-> new, dir_entry |-> None,
               open_entries |-> [t EXCEPT ![FirstEmpty(t)] =
                                    [fd |-> next_fd, info |-> dir_entry]],
               fd |-> (next_fd + 1) % FdModulus]

\* File::activate: TRUE when an ActiveFile is returned, FALSE for None.
File_activate(t, f) == file_is_open(t, f)

\* ActiveFile::read, the loop: [cache, total, ios, segs]; segs names, copy
\* by copy, the bytes written to the buffer: n bytes of `sector` from byte
\* `from`.
RECURSIVE ReadLoop(_, _, _, _, _, _, _)
ReadLoop(c, b, f, remaining, total, ios, failAt) ==
    IF remaining = 0
    THEN [cache |-> c, total |-> total, ios |-> ios, segs |-> <<>>]
    ELSE Only({
            IF ~md.ok
            THEN [cache |-> md.cache, total |-> total, ios |-> md.ios, segs |-> <<>>]
            ELSE Only({
                    IF rd.n = 0
                    THEN [cache |-> rd.cache, total |-> total, ios |-> md.ios,
                          segs |-> <<>>]
                    ELSE Only({
                            [r EXCEPT !.segs = <<[sector |-> rd.sector.some,
                                                  from |-> rd.from, n |-> rd.n]>> \o @]
                            : r \in {ReadLoop(rd.cache, b, f, remaining - rd.n,
                                              total + rd.n, md.ios, failAt)} })
                    : rd \in {BlockByteCache_read(md.cache, remaining)} })
            : md \in {more_data(c, b, f, ios, failAt)} })

\* ActiveFile::read into a buffer of `len` bytes: [res, n, file, ios, segs].
ActiveFile_read(t, fl, b, f, len, failAt) ==
    IF ~file_is_open(t, fl)
    THEN [res |-> "FileClosed", n |-> 0, file |-> fl, ios |-> 0, segs |-> <<>>]
    ELSE Only({ [res |-> "Ok", n |-> r.total,
                 file |-> [fl EXCEPT !.read_cache = r.cache], ios |-> r.ios,
                 segs |-> r.segs]
                : r \in {ReadLoop(fl.read_cache, b, f, len, 0, 0, failAt)} })

\* File::reset
File_reset(fl, b) ==
    [fl EXCEPT !.read_cache =
        BlockByteCache_reset(fl.read_cache, all_sectors(b, fl.dir_entry.first_cluster))]

(***************************************************************************)
(* Directory slots and the directory iterator: fat/directory.rs.  A slot   *)
(* is a record of the fields of its 32 bytes: name (bytes 0..10), attr,    *)
(* clus_hi, clus_lo, file_size.  In a long-name slot byte 0 is the ordinal *)
(* and bytes 1..10 the first name fragment; name2 and name3 are the other  *)
(* two fragments.                                                          *)
(***************************************************************************)
SlotsPerBlock == Block_LEN \div 32

ZeroSlot ==
    [name |-> [i \in 1..11 |-> 0], attr |-> 0, clus_hi |-> 0, clus_lo |-> 0,
     file_size |-> 0, name2 |-> 0, name3 |-> 0]

\* The slots of device sector `sector`; a sector no directory was written to
\* reads as zeros.
SectorSlots(d, sector) ==
    IF sector \in DOMAIN d THEN d[sector] ELSE [i \in 1..SlotsPerBlock |-> ZeroSlot]

\* DirEntryRaw::set_name: the first min(len, 11) bytes of `name`, then 0x20.
set_name(raw, name) ==
    [raw EXCEPT !.name = [i \in 1..11 |->
                            IF i <= Min(Len(name), 11) THEN name[i] ELSE 32]]

\* ShortNameRaw::is_free: the first byte is 0x00, 0xE5 or 0x05.
ShortNameRaw_is_free(name) == name[1] = 0 \/ name[1] = 229 \/ name[1] = 5

\* DirEntryInfo::get_free_status
get_free_status(info) ==
    [this_entry_free    |-> ShortNameRaw_is_free(info.name),
     all_following_free |-> info.name[1] = 0]

\* LongNameRaw { long_name_data: [0u16; 256] } as the 13-unit fragments that
\* were written to it, by fragment index; all other units are zero.
LongNameRaw_zero == <<>>

\* DirEntryInfo::new: None for Err(Fat16FistClusHiNotZero).
DirEntryInfo_new(long_name, raw, fat_type, location) ==
    IF fat_type = "Fat16" /\ raw.clus_hi # 0
    THEN None
    ELSE Some([name          |-> raw.name,
               attributes    |-> raw.attr,
               file_size     |-> raw.file_size,
               first_cluster |-> IF fat_type = "Fat16" THEN raw.clus_lo
                                 ELSE (raw.clus_hi * 65536) + raw.clus_lo,
               location      |-> location,
               long_name     |-> long_name])

\* DirIter::handle_lfn: the accumulator after a long-name slot.
handle_lfn(raw_dir_entry, long_name_data) ==
    LET ord0          == raw_dir_entry.name[1]
        is_last_entry == ((ord0 \div 64) % 2) = 1
        ord           == ((IF is_last_entry THEN ord0 - 64 ELSE ord0) + 255) % 256
        data          == IF is_last_entry THEN Some(LongNameRaw_zero) ELSE long_name_data
        start_index   == 13 * ord
        end_index     == start_index + 13
    IN  IF data = None THEN None
        ELSE IF end_index <= 255
        THEN Some([i \in DOMAIN data.some \cup {ord} |->
                    IF i = ord
                    THEN <<[k \in 1..10 |-> raw_dir_entry.name[k + 1]],
                           raw_dir_entry.name2, raw_dir_entry.name3>>
                    ELSE data.some[i]])
        ELSE data

\* DirIter::new
DirIter_new(sectors) ==
    [block_cache |-> BlockByteCache_new(None, sectors), total_entries_read |-> 0]

RECURSIVE DirIter_loop(_, _, _, _, _)

\* DirIter::next with the slip of keeping the long-name accumulator over a
\* free slot.
DirIter_loop_KeepsLfn(it, b, f, d, long_name_data) ==
    Only({
        IF ~md.ok
        THEN [it |-> [it EXCEPT !.block_cache = md.cache], entry |-> None]
        ELSE Only({
            IF ~(rd.n = 32 /\ rd.sector # None)
            THEN [it |-> [it EXCEPT !.block_cache = rd.cache], entry |-> None]
            ELSE Only({
                IF Attributes_is_long_name(raw.attr)
                THEN DirIter_loop([block_cache |-> rd.cache, total_entries_read |-> n],
                                  b, f, d, handle_lfn(raw, long_name_data))
                ELSE Only({
                    IF info = None
                    THEN [it |-> [block_cache |-> rd.cache, total_entries_read |-> n],
                          entry |-> None]
                    ELSE IF get_free_status(info.some).all_following_free
                    THEN [it |-> [block_cache |-> rd.cache, total_entries_read |-> n],
                          entry |-> None]
                    ELSE IF get_free_status(info.some).this_entry_free
                    THEN DirIter_loop([block_cache |-> rd.cache,
                                       total_entries_read |-> n], b, f, d, long_name_data)
                    ELSE [it |-> [block_cache |-> rd.cache, total_entries_read |-> n],
                          entry |-> info]
                    : info \in {DirEntryInfo_new(
                                    IF long_name_data = None THEN LongNameRaw_zero
                                    ELSE long_name_data.some,
                                    raw, b.fat_type,
                                    [sector |-> rd.sector.some,
                                     byte_offset |-> (n * 32) % Block_LEN])} })
                : raw \in {SectorSlots(d, rd.sector.some)[(rd.from \div 32) + 1]},
                  n \in {it.total_entries_read + 1} })
            : rd \in {BlockByteCache_read(md.cache, 32)} })
        : md \in {more_data(it.block_cache, b, f, 0, 0)} })

\* DirIter::next: [it, entry], entry = None when the call returns None.
DirIter_loop(it, b, f, d, long_name_data) ==
    Only({
        IF ~md.ok
        THEN [it |-> [it EXCEPT !.block_cache = md.cache], entry |-> None]
        ELSE Only({
            IF ~(rd.n = 32 /\ rd.sector # None)
            THEN [it |-> [it EXCEPT !.block_cache = rd.cache], entry |-> None]
            ELSE Only({
                IF Attributes_is_long_name(raw.attr)
                THEN DirIter_loop([block_cache |-> rd.cache, total_entries_read |-> n],
                                  b, f, d, handle_lfn(raw, long_name_data))
                ELSE Only({
                    IF info = None
                    THEN [it |-> [block_cache |-> rd.cache, total_entries_read |-> n],
                          entry |-> None]
                    ELSE IF get_free_status(info.some).all_following_free
                    THEN [it |-> [block_cache |-> rd.cache, total_entries_read |-> n],
                          entry |-> None]
                    ELSE IF get_free_status(info.some).this_entry_free
                    THEN DirIter_loop([block_cache |-> rd.cache,
                                       total_entries_read |-> n], b, f, d, None)
                    ELSE [it |-> [block_cache |-> rd.cache, total_entries_read |-> n],
                          entry |-> info]
                    : info \in {DirEntryInfo_new(
                                    IF long_name_data = None THEN LongNameRaw_zero
                                    ELSE long_name_data.some,
                                    raw, b.fat_type,
                                    [sector |-> rd.sector.some,
                                     byte_offset |-> (n * 32) % Block_LEN])} })
                : raw \in {SectorSlots(d, rd.sector.some)[(rd.from \div 32) + 1]},
                  n \in {it.total_entries_read + 1} })
            : rd \in {BlockByteCache_read(md.cache, 32)} })
        : md \in {more_data(it.block_cache, b, f, 0, 0)} })

DirIter_next(it, b, f, d) == DirIter_loop(it, b, f, d, None)

\* DirEntry::iter_subdir: the iterator over the directory `info` names.
iter_subdir(info, b) ==
    IF Attributes_is_dir(info.attributes)
    THEN Some(DirIter_new(all_sectors(b, info.first_cluster)))
    ELSE None

\* The entries a fresh iterator yields until its first None (at most `cap`).
RECURSIVE DirIter_collect(_, _, _, _, _)
DirIter_collect(it, b, f, d, cap) ==
    IF cap = 0 THEN <<>>
    ELSE Only({
            IF r.entry = None THEN <<>>
            ELSE <<r.entry.some>> \o DirIter_collect(r.it, b, f, d, cap - 1)
            : r \in {DirIter_next(it, b, f, d)} })

(***************************************************************************)
(* Closing and deleting.                                                   *)
(***************************************************************************)
\* File::close: the table after the call and the DirEntry handed back.
File_close(t, fl) ==
    [open_entries |-> close_dir_entry(t, fl.dir_entry), dir_entry |-> fl.dir_entry]

\* DirEntry::delete: read the sector of info.location, set_name(&[0x5E]) on
\* the 32 bytes at its byte_offset, write the sector back: [res, dir, ios].
DirEntry_delete(info, b, d, ios, failAt) ==
    LET sector == info.location.sector
        slot   == (info.location.byte_offset \div 32) + 1
        block  == [SectorSlots(d, sector) EXCEPT ![slot] = set_name(@, <<94>>)]
    IN  IF AccessFails(ios, failAt) \/ ~InRange(b, sector)
        THEN [res |-> "Err", dir |-> d, ios |-> ios + 1]
        ELSE IF AccessFails(ios + 1, failAt)
        THEN [res |-> "Err", dir |-> d, ios |-> ios + 2]
        ELSE [res |-> "Ok",
              dir |-> [x \in DOMAIN d \cup {sector} |-> IF x = sector THEN block ELSE d[x]],
              ios |-> ios + 2]

\* The chain walk of deallocate_dir_entry: for each cluster the successor is
\* captured (one FAT sector read), then the sector of its entry is read, the
\* entry overwritten with FREE and the sector written back: [res, fat, ios].
RECURSIVE FreeChain(_, _, _, _, _)
FreeChain(b, f, cluster, ios, failAt) ==
    Only({
        IF AccessFails(ios, failAt) \/ nxt = Err
        THEN [res |-> "Err", fat |-> f, ios |-> ios + 1]
        ELSE IF AccessFails(ios + 1, failAt)
        THEN [res |-> "Err", fat |-> f, ios |-> ios + 2]
        ELSE IF AccessFails(ios + 2, failAt)
        THEN [res |-> "Err", fat |-> f, ios |-> ios + 3]
        ELSE Only({
                IF nxt = None
                THEN [res |-> "Ok", fat |-> f2, ios |-> ios + 3]
                ELSE FreeChain(b, f2, nxt.some, ios + 3, failAt)
                : f2 \in {DeviceFatWrite(b, f, FatEntryLocation(b, 1, cluster).sector,
                                         FatEntryLocation(b, 1, cluster).byte_offset,
                                         FREE)} })
        : nxt \in {find_next_cluster(b, f, 1, cluster)} })

\* FatVolume::deallocate_dir_entry: close the handle, free the chain, mark
\* the directory slot: [res, open_entries, fat, dir].
deallocate_dir_entry(t, b, f, d, info, failAt) ==
    Only({
        IF fc.res = "Err"
        THEN [res |-> "Err", open_entries |-> close_dir_entry(t, info),
              fat |-> fc.fat, dir |-> d]
        ELSE Only({
                [res |-> dd.res, open_entries |-> close_dir_entry(t, info),
                 fat |-> fc.fat, dir |-> dd.dir]
                : dd \in {DirEntry_delete(info, b, d, fc.ios, failAt)} })
        : fc \in {FreeChain(b, f, info.first_cluster, 0, failAt)} })

\* File::delete with the slip of calling DirEntry::delete on the entry,
\* which marks the slot and leaves the chain alone.
File_delete_SlotOnly(t, b, f, d, fl, failAt) ==
    Only({ [res |-> dd.res, open_entries |-> close_dir_entry(t, fl.dir_entry),
            fat |-> f, dir |-> dd.dir]
           : dd \in {DirEntry_delete(fl.dir_entry, b, d, 0, failAt)} })

\* File::delete with the slip of marking the directory slot before the
\* chain is walked.
File_delete_SlotFirst(t, b, f, d, fl, failAt) ==
    Only({
        IF dd.res = "Err"
        THEN [res |-> "Err", open_entries |-> close_dir_entry(t, fl.dir_entry),
              fat |-> f, dir |-> d]
        ELSE Only({
                [res |-> fc.res, open_entries |-> close_dir_entry(t, fl.dir_entry),
                 fat |-> fc.fat, dir |-> dd.dir]
                : fc \in {FreeChain(b, f, fl.dir_entry.first_cluster, dd.ios, failAt)} })
        : dd \in {DirEntry_delete(fl.dir_entry, b, d, 0, failAt)} })

\* File::delete
File_delete(t, b, f, d, fl, failAt) ==
    deallocate_dir_entry(t, b, f, d, fl.dir_entry, failAt)

(***************************************************************************)
(* Device images.                                                          *)
(***************************************************************************)
Fat16Bpb ==
    [fat_type |-> "Fat16", reserved_sector_count |-> 1, bytes_per_sector |-> 512,
     fat_size |-> 1, num_fats |-> 2, sectors_per_cluster |-> 1,
     root_entry_count |-> 16]

Fat32Bpb ==
    [fat_type |-> "Fat32", reserved_sector_count |-> 1, bytes_per_sector |-> 512,
     fat_size |-> 1, num_fats |-> 2, sectors_per_cluster |-> 2,
     root_entry_count |-> 0]

Bpbs == {Fat16Bpb, Fat32Bpb}

\* The end-of-chain mark a formatter writes: 0xFFFF, 0x0FFFFFFF.
Final(fat_type) ==
    IF fat_type = "Fat16" THEN FAT16_FINAL ELSE FAT32_RESERVED_RANGE_END + 1
Media(fat_type) ==
    IF fat_type = "Fat16" THEN FAT16_RESERVED_RANGE_START ELSE FAT32_RESERVED_RANGE_START

DataClusters == 2..MaxCluster

\* What the entry of data cluster c may hold: FREE, an end of chain, the
\* next cluster, or a pointer back to the first data cluster (a cycle).
EntryValues(fat_type, c) ==
    {FREE, Final(fat_type), Media(fat_type), 2}
        \cup (IF c < MaxCluster THEN {c + 1} ELSE {})

\* One FAT copy: entry 0 holds the media word, entry 1 an end of chain.
FatCopies(fat_type) ==
    { t \in [0..MaxCluster -> {FREE, Final(fat_type), Media(fat_type)} \cup DataClusters] :
        /\ t[0] = Media(fat_type)
        /\ t[1] = Final(fat_type)
        /\ \A c \in DataClusters : t[c] \in EntryValues(fat_type, c) }

\* The chain as the FAT format defines it, read from FAT #1: the entry of a
\* data cluster is a forward pointer unless it is FREE, the bad-cluster mark
\* or an end-of-chain mark (0xFFF8..0xFFFF, 0x0FFFFFF8..0x0FFFFFFF).
OnDiskEntry(b, f, cluster) ==
    IF b.fat_type = "Fat16" THEN f[1][cluster] % 65536 ELSE f[1][cluster] % Mask28

OnDiskEnd(b, value) ==
    \/ value = FREE
    \/ value >= (IF b.fat_type = "Fat16" THEN FAT16_BAD ELSE FAT32_BAD)

\* The number of clusters of the chain from `cluster`, capped at `cap`
\* (a chain that loops reaches the cap).
RECURSIVE ChainClusters(_, _, _, _)
ChainClusters(b, f, cluster, cap) ==
    IF cap = 0 \/ cluster \notin DataClusters THEN 0
    ELSE IF OnDiskEnd(b, OnDiskEntry(b, f, cluster)) THEN 1
    ELSE 1 + ChainClusters(b, f, OnDiskEntry(b, f, cluster), cap - 1)

\* The clusters of the chain from `cluster`, in chain order, cut at a loop.
RECURSIVE ChainSeq(_, _, _, _)
ChainSeq(b, f, cluster, seen) ==
    IF cluster \in seen \/ cluster \notin DataClusters THEN <<>>
    ELSE IF OnDiskEnd(b, OnDiskEntry(b, f, cluster)) THEN <<cluster>>
    ELSE <<cluster>> \o ChainSeq(b, f, OnDiskEntry(b, f, cluster), seen \cup {cluster})

(***************************************************************************)
(* Streaming read of one open file.                                        *)
(***************************************************************************)
FileSizes == {0, 300, 1536}
BufLens == {200, 512, 2000}
FailAts == 0..1

ReadEntries ==
    { [first_cluster |-> c, file_size |-> n, attributes |-> ARCHIVE,
       location |-> [sector |-> 3, byte_offset |-> 0]] :
        c \in {0, 2, MaxCluster}, n \in FileSizes }

NoResult == [op |-> "none"]

ReadInit ==
    /\ iter = None
    /\ yielded = <<>>
    /\ partition = None
    /\ boot_sector = None
    /\ bpb \in Bpbs
    /\ \E t \in FatCopies(bpb.fat_type) : fat = [copy \in 1..bpb.num_fats |-> t]
    /\ dir = <<>>
    /\ open_entries = EmptyTable
    /\ fd = 0
    /\ files = {}
    /\ file = None
    /\ delivered = 0
    /\ result = NoResult

\* volume.open_file(dir_entry, mode)
ReadOpen(e) ==
    /\ file = None
    /\ \E r \in {open_file(open_entries, fd, bpb, e, "ReadOnly")} :
        /\ open_entries' = r.open_entries
        /\ fd' = r.fd
        /\ file' = r.file
        /\ result' = [op |-> "open_file", res |-> r.res]
    /\ delivered' = 0
    /\ UNCHANGED <<iter, yielded, partition, boot_sector, bpb, fat, dir, files>>

\* file.activate(volume).read(data) with data.len() = len
ReadRead(len, failAt) ==
    /\ file # None
    /\ \E r \in {ActiveFile_read(open_entries, file, bpb, fat, len, failAt)} :
        /\ file' = r.file
        /\ delivered' = delivered + r.n
        /\ result' = [op |-> "read", res |-> r.res, n |-> r.n, len |-> len,
                      failed |-> \/ (failAt # 0 /\ r.ios >= failAt)
                                 \/ (result.op = "read" /\ result.failed)]
    /\ UNCHANGED <<iter, yielded, partition, boot_sector, bpb, fat, dir, open_entries, fd, files>>

\* file.activate(volume).reset()
ReadReset ==
    /\ file # None
    /\ file' = File_reset(file, bpb)
    /\ delivered' = 0
    /\ result' = [op |-> "reset", delivered |-> delivered]
    /\ UNCHANGED <<iter, yielded, partition, boot_sector, bpb, fat, dir, open_entries, fd, files>>

ReadNext ==
    \/ \E e \in ReadEntries : ReadOpen(e)
    \/ \E len \in BufLens, failAt \in FailAts : ReadRead(len, failAt)
    \/ ReadReset

SpecRead == ReadInit /\ [][ReadNext]_vars

(***************************************************************************)
(* Claims about the streaming read (SpecRead).                             *)
(***************************************************************************)
\* The bytes the chain of the open file holds; a chain that loops holds
\* more than any file size of the model.
ChainBytes ==
    ChainClusters(bpb, fat, file.dir_entry.first_cluster, MaxCluster + 2)
        * bpb.sectors_per_cluster * Block_LEN

\* C2: the byte counts returned by the reads made since the file was opened
\* or last reset never add up to more than the file_size of its directory
\* entry, for every buffer length and every cluster chain.
C2_ReadBound ==
    file # None => delivered <= file.dir_entry.file_size

\* C2 witness: the chain holds more bytes than file_size, the reads have
\* delivered file_size bytes in several calls, and one more read returned 0.
C2_Witness ==
    /\ file # None
    /\ result.op = "read"
    /\ result.n = 0
    /\ file.dir_entry.file_size = 300
    /\ delivered = 300
    /\ ChainBytes > 300

\* C3: when the chain holds at least file_size bytes and no device access
\* failed, a read into a buffer of at least file_size bytes made before any
\* byte was delivered returns file_size, and once a read returns 0 the reads
\* have delivered file_size bytes in total.
C3_ReadsWholeFile ==
    (/\ file # None
     /\ result.op = "read"
     /\ ~result.failed
     /\ ChainBytes >= file.dir_entry.file_size)
    => /\ (result.len >= file.dir_entry.file_size /\ delivered = result.n)
            => result.n = file.dir_entry.file_size
       /\ result.n = 0 => delivered = file.dir_entry.file_size

\* C3 witness: a file of three sectors read by one call into a larger buffer.
C3_Witness ==
    /\ file # None
    /\ result.op = "read"
    /\ ~result.failed
    /\ file.dir_entry.file_size = 1536
    /\ ChainBytes >= 1536
    /\ result.len = 2000
    /\ delivered = result.n
    /\ result.n = 1536

(***************************************************************************)
(* The parent directory of the files that are opened, closed and deleted:  *)
(* a subdirectory in the first data cluster.                               *)
(***************************************************************************)
ShortName(first) == [i \in 1..11 |-> IF i = 1 THEN first ELSE 32]

ShortSlot(first, attr, cluster, size) ==
    [name |-> ShortName(first), attr |-> attr, clus_hi |-> 0, clus_lo |-> cluster,
     file_size |-> size, name2 |-> 0, name3 |-> 0]

LongSlot(ord, fragment) ==
    [name |-> [i \in 1..11 |-> IF i = 1 THEN ord ELSE fragment], attr |-> LongNameBits,
     clus_hi |-> 0, clus_lo |-> 0, file_size |-> 0, name2 |-> fragment,
     name3 |-> fragment]

\* The directory entry of the parent directory itself.
ParentDir ==
    [name |-> ShortName(84), attributes |-> DIRECTORY, file_size |-> 0,
     first_cluster |-> 2, location |-> [sector |-> 0, byte_offset |-> 0],
     long_name |-> LongNameRaw_zero]

\* ".", "..", file A (cluster 3), a long-name slot and its empty file B, the
\* empty file C, a free slot, file D (cluster 4), then the end of directory.
ParentSlots ==
    [i \in 1..SlotsPerBlock |->
        CASE i = 1 -> ShortSlot(46, DIRECTORY, 2, 0)
          [] i = 2 -> [ShortSlot(46, DIRECTORY, 0, 0) EXCEPT !.name[2] = 46]
          [] i = 3 -> ShortSlot(65, ARCHIVE, 3, 700)
          [] i = 4 -> LongSlot(65, 98)
          [] i = 5 -> ShortSlot(66, ARCHIVE, 0, 0)
          [] i = 6 -> ShortSlot(67, ARCHIVE, 0, 0)
          [] i = 7 -> ShortSlot(229, ARCHIVE, 0, 0)
          [] i = 8 -> ShortSlot(68, ARCHIVE, 4, 100)
          [] OTHER -> ZeroSlot]

ParentImage(b) ==
    [s \in {Cluster_sectors(ParentDir.first_cluster, data_start(b),
                            b.sectors_per_cluster).current} |-> ParentSlots]

\* What a fresh iteration of the parent directory yields.
DirEntries(b, f, d) ==
    DirIter_collect(iter_subdir(ParentDir, b).some, b, f, d,
                    SlotsPerBlock * b.sectors_per_cluster)

EntrySet(b, f, d) ==
    UNION { {s[i] : i \in 1..Len(s)} : s \in {DirEntries(b, f, d)} }

(***************************************************************************)
(* The open-handle table: open_file, File::close, close_dir_entry,         *)
(* File::delete and File::activate on the File values a caller holds.      *)
(* files[h].closed records that the file of handle h was closed: by        *)
(* close_dir_entry or delete on its directory entry.                       *)
(***************************************************************************)
\* The two File variables of the caller.
Handles == {"F", "G"}

\* A FAT copy in which every data cluster is a chain of its own.
SingleClusterFat(fat_type) ==
    [c \in 0..MaxCluster |->
        IF c = 0 THEN Media(fat_type)
        ELSE IF c = 1 THEN Final(fat_type)
        ELSE Media(fat_type)]

FirstFreeHandle(fs) == IF fs["F"] = None THEN "F" ELSE "G"

\* The handles after the directory entry at `location` was closed.
MarkClosed(fs, location) ==
    [h \in DOMAIN fs |->
        IF fs[h] # None /\ fs[h].file.dir_entry.location = location
        THEN [fs[h] EXCEPT !.closed = TRUE] ELSE fs[h]]

\* The entries the caller got from iterating the parent directory and
\* works with: "..", A, B and D.
CallerEntries ==
    [b \in Bpbs |->
        { e \in EntrySet(b, [copy \in 1..b.num_fats |-> SingleClusterFat(b.fat_type)],
                         ParentImage(b)) :
            e.name \in {[ShortName(46) EXCEPT ![2] = 46], ShortName(65),
                        ShortName(66), ShortName(68)} }]

OpenInit ==
    /\ iter = None
    /\ yielded = <<>>
    /\ partition = None
    /\ boot_sector = None
    /\ bpb = Fat16Bpb
    /\ fat = [copy \in 1..bpb.num_fats |-> SingleClusterFat(bpb.fat_type)]
    /\ dir = ParentImage(bpb)
    /\ open_entries = EmptyTable
    /\ fd = 0
    /\ files = [h \in Handles |-> None]
    /\ file = None
    /\ delivered = 0
    /\ result = NoResult

\* volume.open_file(e, mode) with an entry a directory iteration yielded
OpenFile(e) ==
    /\ \E r \in {open_file(open_entries, fd, bpb, e, "ReadOnly")} :
        /\ r.res = "Ok" => \E h \in Handles : files[h] = None
        /\ open_entries' = r.open_entries
        /\ fd' = r.fd
        /\ files' = IF r.res = "Ok"
                    THEN [files EXCEPT ![FirstFreeHandle(files)] =
                            [file |-> r.file, closed |-> FALSE]]
                    ELSE files
        /\ result' = [op |-> "open_file", res |-> r.res]
    /\ UNCHANGED <<iter, yielded, partition, boot_sector, bpb, fat, dir, file, delivered>>

\* file.close(volume): the File is consumed
FileClose(h) ==
    /\ files[h] # None
    /\ \E r \in {File_close(open_entries, files[h].file)} :
        /\ open_entries' = r.open_entries
        /\ files' = [MarkClosed(files, r.dir_entry.location) EXCEPT ![h] = None]
        /\ result' = [op |-> "close", res |-> "Ok"]
    /\ UNCHANGED <<iter, yielded, partition, boot_sector, bpb, fat, dir, fd, file, delivered>>

\* volume.close_dir_entry(e): the caller keeps its File values
CloseDirEntry(e) ==
    /\ open_entries' = close_dir_entry(open_entries, e)
    /\ files' = MarkClosed(files, e.location)
    /\ result' = [op |-> "close_dir_entry", res |-> "Ok"]
    /\ UNCHANGED <<iter, yielded, partition, boot_sector, bpb, fat, dir, fd, file, delivered>>

\* file.delete(volume): the File is consumed
FileDelete(h) ==
    /\ files[h] # None
    /\ \E r \in {File_delete(open_entries, bpb, fat, dir, files[h].file, 0)} :
        /\ open_entries' = r.open_entries
        /\ fat' = r.fat
        /\ dir' = r.dir
        /\ result' = [op |-> "delete", res |-> r.res]
    /\ files' = [MarkClosed(files, files[h].file.dir_entry.location) EXCEPT ![h] = None]
    /\ UNCHANGED <<iter, yielded, partition, boot_sector, bpb, fd, file, delivered>>

\* file.activate(volume)
Activate(h) ==
    /\ files[h] # None
    /\ result' = [op |-> "activate",
                  res |-> IF File_activate(open_entries, files[h].file)
                          THEN "Some" ELSE "None"]
    /\ UNCHANGED <<iter, yielded, partition, boot_sector, bpb, fat, dir, open_entries, fd, files, file, delivered>>

OpenNext ==
    \/ \E e \in CallerEntries[bpb] : OpenFile(e)
    \/ \E h \in Handles : FileClose(h)
    \/ \E e \in CallerEntries[bpb] : CloseDirEntry(e)
    \/ \E h \in Handles : FileDelete(h)
    \/ \E h \in Handles : Activate(h)

SpecOpen == OpenInit /\ [][OpenNext]_vars

(***************************************************************************)
(* Claims about the open-handle table (SpecOpen).                          *)
(***************************************************************************)
\* C1: after any sequence of open_file, close and delete calls no two
\* occupied slots of the open-handle table carry the same first_cluster and
\* no two occupied slots carry the same fd.
C1_OpenSetUnique ==
    \A i, j \in Occupied(open_entries) :
        i # j => /\ open_entries[i].info.first_cluster
                        # open_entries[j].info.first_cluster
                 /\ open_entries[i].fd # open_entries[j].fd

\* C1 witness: two files are open under the same fd.
C1_Witness ==
    \E i, j \in Occupied(open_entries) :
        /\ i # j
        /\ open_entries[i].fd = open_entries[j].fd
        /\ open_entries[i].info.first_cluster # open_entries[j].info.first_cluster

\* C4: a File the caller holds can be activated exactly when it was opened
\* and not closed since: activate returns an ActiveFile from the successful
\* open_file until the file is closed, and None after close_dir_entry or
\* delete on its directory entry.
C4_ActivateIffOpen ==
    \A h \in Handles :
        files[h] # None =>
            (File_activate(open_entries, files[h].file) <=> ~files[h].closed)

\* C4 witness: activate returned None for the only File held, which was
\* opened and never closed.
C4_Witness ==
    /\ result.op = "activate"
    /\ result.res = "None"
    /\ files["F"] # None
    /\ files["G"] = None
    /\ ~files["F"].closed

\* C5: File::close on a file that is already closed (no slot carries its fd)
\* leaves the open-handle table unchanged.
C5_CloseIdempotent ==
    [][\A h \in Handles :
        (FileClose(h) /\ ~file_is_open(open_entries, files[h].file))
            => open_entries' = open_entries]_vars

\* C5 witness: a File that was closed by close_dir_entry is about to be
\* closed again while its entry is open under another fd.
C5_Witness ==
    /\ files["F"] # None
    /\ files["G"] # None
    /\ files["F"].closed
    /\ ~file_is_open(open_entries, files["F"].file)
    /\ file_is_open(open_entries, files["G"].file)
    /\ files["F"].file.dir_entry = files["G"].file.dir_entry

\* C6: open_file on an entry whose first_cluster equals that of an entry in
\* an occupied slot returns AlreadyOpen, hands the entry back, and leaves the
\* table, the fd counter and the caller's files unchanged.
C6_AlreadyOpen ==
    [][\A e \in CallerEntries[bpb] :
        (/\ OpenFile(e)
         /\ \E i \in Occupied(open_entries) :
                open_entries[i].info.first_cluster = e.first_cluster)
        => /\ result'.res = "AlreadyOpen"
           /\ open_file(open_entries, fd, bpb, e, "ReadOnly").dir_entry = Some(e)
           /\ open_entries' = open_entries
           /\ fd' = fd
           /\ files' = files]_vars

\* C6 witness: open_file returned AlreadyOpen while a slot is occupied.
C6_Witness ==
    /\ result.op = "open_file"
    /\ result.res = "AlreadyOpen"
    /\ Occupied(open_entries) # {}

\* C7: open_file never changes an occupied slot; when every slot is occupied
\* it opens nothing and returns TooManyOpenFiles for an entry that is neither
\* open nor a directory; at most MAX_FILES slots are ever occupied.
C7_EmptySlotOnly ==
    /\ [](Cardinality(Occupied(open_entries)) <= MAX_FILES)
    /\ [][\A e \in CallerEntries[bpb] :
            OpenFile(e) =>
                /\ \A i \in Occupied(open_entries) : open_entries'[i] = open_entries[i]
                /\ Occupied(open_entries) = Slots =>
                        (result'.res # "Ok" /\ open_entries' = open_entries)
                /\ (/\ Occupied(open_entries) = Slots
                    /\ ~dir_entry_is_open(open_entries, e)
                    /\ ~Attributes_is_dir(e.attributes))
                        => result'.res = "TooManyOpenFiles"]_vars

\* C7 witness: open_file returned TooManyOpenFiles with every slot occupied.
C7_Witness ==
    /\ result.op = "open_file"
    /\ result.res = "TooManyOpenFiles"
    /\ Occupied(open_entries) = Slots

\* C8: open_file on an entry with the DIRECTORY attribute returns no File and
\* changes no slot, and no occupied slot ever holds a directory entry.
C8_DirectoryNotOpened ==
    /\ [](\A i \in Occupied(open_entries) :
            ~Attributes_is_dir(open_entries[i].info.attributes))
    /\ [][\A e \in CallerEntries[bpb] :
            (OpenFile(e) /\ Attributes_is_dir(e.attributes))
                => /\ result'.res # "Ok"
                   /\ files' = files
                   /\ open_entries' = open_entries]_vars

\* C8 witness: open_file refused a directory entry at the attribute test.
C8_Witness ==
    /\ result.op = "open_file"
    /\ result.res = "IsDirectory"

(***************************************************************************)
(* Deleting a file: open_file on an entry of a fresh iteration of the      *)
(* parent directory, File::delete, and a fresh iteration, over every FAT   *)
(* image and with a device access that may fail.                           *)
(***************************************************************************)
\* Which device access of a delete fails (0: none).
DelFailAts == 0..((3 * (MaxCluster - 2)) + 2)

\* The FAT images in which the parent directory is one cluster long and no
\* file chain leads into it.
DelFatCopies(fat_type) ==
    { t \in FatCopies(fat_type) :
        /\ t[ParentDir.first_cluster] = Media(fat_type)
        /\ \A c \in DataClusters \ {ParentDir.first_cluster} :
                t[c] # ParentDir.first_cluster }

DelInit ==
    /\ iter = None
    /\ yielded = <<>>
    /\ partition = None
    /\ boot_sector = None
    /\ bpb \in Bpbs
    /\ \E t \in DelFatCopies(bpb.fat_type) : fat = [copy \in 1..bpb.num_fats |-> t]
    /\ dir = ParentImage(bpb)
    /\ open_entries = EmptyTable
    /\ fd = 0
    /\ files = {}
    /\ file = None
    /\ delivered = 0
    /\ result = NoResult

\* The slot the location of `info` names.
LocatedSlot(d, info) ==
    SectorSlots(d, info.location.sector)[(info.location.byte_offset \div 32) + 1]

\* An earlier delete of `info` ran to its end: the FAT entry of its first
\* cluster is FREE and the slot at its location carries the mark.
AlreadyDeleted(b, f, d, info) ==
    /\ OnDiskEntry(b, f, info.first_cluster) = FREE
    /\ LocatedSlot(d, info).name[1] = 94

\* volume.open_file(e, mode) with an entry of a fresh iteration
DelOpen(e) ==
    /\ file = None
    /\ \E r \in {open_file(open_entries, fd, bpb, e, "ReadOnly")} :
        /\ open_entries' = r.open_entries
        /\ fd' = r.fd
        /\ file' = r.file
        /\ result' = [op |-> "open_file", res |-> r.res]
    /\ UNCHANGED <<iter, yielded, partition, boot_sector, bpb, fat, dir, files, delivered>>

\* file.delete(volume); the result also names the entry and the chain it had
DelDelete(failAt) ==
    /\ file # None
    /\ \E r \in {File_delete(open_entries, bpb, fat, dir, file, failAt)} :
        /\ open_entries' = r.open_entries
        /\ fat' = r.fat
        /\ dir' = r.dir
        /\ result' = [op |-> "delete", res |-> r.res, entry |-> file.dir_entry,
                      chain |-> ChainSeq(bpb, fat, file.dir_entry.first_cluster, {}),
                      again |-> AlreadyDeleted(bpb, fat, dir, file.dir_entry)]
    /\ file' = None
    /\ UNCHANGED <<iter, yielded, partition, boot_sector, bpb, fd, files, delivered>>

\* a fresh iteration of the parent directory after a delete, counted
DelIter ==
    /\ result.op = "delete"
    /\ result' = [op |-> "iter", count |-> Len(DirEntries(bpb, fat, dir))]
    /\ UNCHANGED <<iter, yielded, partition, boot_sector, bpb, fat, dir, open_entries, fd, files, file, delivered>>

\* The caller opens the files it knows by name: A, B, C and D.
DelNames == {ParentSlots[i].name : i \in {3, 5, 6, 8}}

DelNext ==
    \/ /\ file = None
       /\ \E e \in {x \in EntrySet(bpb, fat, dir) : x.name \in DelNames} : DelOpen(e)
    \/ \E failAt \in DelFailAts : DelDelete(failAt)
    \/ DelIter

SpecDelete == DelInit /\ [][DelNext]_vars

(***************************************************************************)
(* Claims about deletion (SpecDelete).                                     *)
(***************************************************************************)
\* The chain from `cluster` runs through data clusters to an end-of-chain
\* mark: it neither loops nor stops at a FREE or bad-cluster entry.
ChainEndsFinal(b, f, cluster) ==
    LET chain == ChainSeq(b, f, cluster, {}) IN
    /\ chain # <<>>
    /\ OnDiskEntry(b, f, chain[Len(chain)])
            > (IF b.fat_type = "Fat16" THEN FAT16_BAD ELSE FAT32_BAD)

\* C9: when File::delete returns Ok, a fresh iteration of the parent
\* directory yields one entry fewer than before and none with the deleted
\* entry's name.
C9_DeleteRemovesEntry ==
    [][((\E failAt \in DelFailAts : DelDelete(failAt)) /\ result'.res = "Ok")
        => /\ Len(DirEntries(bpb, fat', dir')) = Len(DirEntries(bpb, fat, dir)) - 1
           /\ \A x \in EntrySet(bpb, fat', dir') : x.name # file.dir_entry.name]_vars

\* C9 witness: delete returned Ok and a fresh iteration still yields the
\* deleted entry.
C9_Witness ==
    /\ result.op = "delete"
    /\ result.res = "Ok"
    /\ \E x \in EntrySet(bpb, fat, dir) :
            x.name = result.entry.name /\ x.first_cluster = result.entry.first_cluster

\* C10: when File::delete returns Ok for a file whose chain c1 -> ... -> cn
\* ends in an end-of-chain mark, the FAT #1 entry of every ci is FREE
\* afterwards.
C10_ChainFreed ==
    [][(/\ \E failAt \in DelFailAts : DelDelete(failAt)
        /\ result'.res = "Ok"
        /\ ChainEndsFinal(bpb, fat, file.dir_entry.first_cluster))
        => \A c \in {result'.chain[i] : i \in 1..Len(result'.chain)} :
                OnDiskEntry(bpb, fat', c) = FREE]_vars

\* C10 witness: a chain of two clusters was deleted and both are FREE.
C10_Witness ==
    /\ result.op = "delete"
    /\ result.res = "Ok"
    /\ Len(result.chain) >= 2
    /\ \A i \in 1..Len(result.chain) : OnDiskEntry(bpb, fat, result.chain[i]) = FREE

C12_DeleteIdempotent ==
    [][(DelDelete(0) /\ AlreadyDeleted(bpb, fat, dir, file.dir_entry))
        => (result'.res = "Ok" /\ fat' = fat /\ dir' = dir)]_vars

\* C12 witness: file A (two clusters at first) was deleted a second time.
C12_Witness ==
    /\ result.op = "delete"
    /\ result.res = "Ok"
    /\ result.again
    /\ result.entry.file_size = 700
    /\ OnDiskEntry(bpb, fat, MaxCluster) = FREE

\* C13: when delete returns, with Ok or with an error, no slot of the
\* open-handle table carries the fd of the deleted File and its directory
\* entry is not reported open.
C13_DeleteClosesHandle ==
    [][\A h \in Handles :
        FileDelete(h)
        => /\ \A i \in Occupied(open_entries') :
                    open_entries'[i].fd # files[h].file.fd
           /\ ~dir_entry_is_open(open_entries', files[h].file.dir_entry)]_vars

\* C13 witness: a delete returned while another File is still open.
C13_Witness ==
    /\ result.op = "delete"
    /\ \E h \in Handles : files[h] # None /\ file_is_open(open_entries, files[h].file)

(***************************************************************************)
(* The FAT entry codec: get_fat_entry and find_next on every FAT image,    *)
(* FAT copy and cluster index.                                             *)
(***************************************************************************)
\* The words a FAT sector may hold for a data cluster: FREE, a pointer, the
\* bad-cluster mark, the ends of the end-of-chain range and, on FAT32, words
\* with the four reserved upper bits set (up to 0x7FFFFFFF).
FatWords(fat_type) ==
    IF fat_type = "Fat16"
    THEN {FREE, 3, FAT16_BAD, FAT16_RESERVED_RANGE_START, FAT16_RESERVED_RANGE_END,
          FAT16_FINAL}
    ELSE {FREE, 3, FAT32_RESERVED_RANGE_START, FAT32_RESERVED_RANGE_END + 1,
          Mask28 + 3, 7 * Mask28, (7 * Mask28) + FAT32_RESERVED_RANGE_END + 1}

FatImages(fat_type) ==
    { t \in [0..MaxCluster -> FatWords(fat_type)] :
        /\ t[0] = Media(fat_type)
        /\ t[1] = Final(fat_type) }

\* The cluster indices asked for: every entry of the FAT and the indices
\* around the end of its first sector.
FatClusters ==
    (0..MaxCluster)
        \cup {(Block_LEN \div 4) - 1, Block_LEN \div 4, (Block_LEN \div 2) - 1, Block_LEN \div 2}

FatInit ==
    /\ iter = None
    /\ yielded = <<>>
    /\ partition = None
    /\ boot_sector = None
    /\ bpb \in Bpbs
    /\ \E t \in FatImages(bpb.fat_type) : fat = [copy \in 1..bpb.num_fats |-> t]
    /\ dir = <<>>
    /\ open_entries = EmptyTable
    /\ fd = 0
    /\ files = {}
    /\ file = None
    /\ delivered = 0
    /\ result = NoResult

\* volume.get_fat_entry(fat_number, cluster): the result names the sector
\* and byte offset the call read and what it returned.
GetFatEntry(fat_number, cluster) ==
    /\ result' = [op |-> "get_fat_entry", fat_number |-> fat_number, cluster |-> cluster,
                  sector |-> FatEntryLocation(bpb, fat_number, cluster).sector,
                  byte_offset |-> FatEntryLocation(bpb, fat_number, cluster).byte_offset,
                  res |-> get_fat_entry(bpb, fat, fat_number, cluster)]
    /\ UNCHANGED <<iter, yielded, partition, boot_sector, bpb, fat, dir, open_entries, fd, files, file,
                   delivered>>

\* Cluster(cluster).find_next(1, volume)
FindNext(cluster) ==
    /\ result' = [op |-> "find_next", cluster |-> cluster,
                  res |-> find_next_cluster(bpb, fat, 1, cluster)]
    /\ UNCHANGED <<iter, yielded, partition, boot_sector, bpb, fat, dir, open_entries, fd, files, file,
                   delivered>>

FatNext ==
    \/ \E n \in 1..bpb.num_fats, c \in FatClusters : GetFatEntry(n, c)
    \/ \E c \in FatClusters : FindNext(c)

SpecFat == FatInit /\ [][FatNext]_vars

\* The end-of-chain range of the FAT format: 0xFFF8..0xFFFF on FAT16,
\* 0x0FFFFFF8..0x0FFFFFFF on FAT32.
InFinalRange(fat_type, value) ==
    IF fat_type = "Fat16"
    THEN value >= FAT16_RESERVED_RANGE_START /\ value <= FAT16_RESERVED_RANGE_END + 1
    ELSE value >= FAT32_RESERVED_RANGE_START /\ value <= FAT32_RESERVED_RANGE_END + 1

\* C14: find_next returns None for every cluster whose FAT entry is FREE or
\* lies in the end-of-chain range of the FAT type.
C14_ChainTermination ==
    (/\ result.op = "find_next"
     /\ result.cluster \in 0..MaxCluster
     /\ \/ OnDiskEntry(bpb, fat, result.cluster) = FREE
        \/ InFinalRange(bpb.fat_type, OnDiskEntry(bpb, fat, result.cluster)))
    => result.res = None

\* C14 witness: find_next was asked for a FAT32 cluster whose entry is
\* 0x0FFFFFFF and returned a successor.
C14_Witness ==
    /\ result.op = "find_next"
    /\ bpb.fat_type = "Fat32"
    /\ result.cluster \in DataClusters
    /\ OnDiskEntry(bpb, fat, result.cluster) = FAT32_RESERVED_RANGE_END + 1
    /\ result.res # None

\* C15: every value get_fat_entry returns on FAT32 has its upper four bits
\* clear, whatever word the FAT sector holds.
C15_Fat32Masked ==
    (/\ result.op = "get_fat_entry"
     /\ bpb.fat_type = "Fat32"
     /\ result.res # Err)
    => (result.res.some >= 0 /\ result.res.some < Mask28)

\* C15 witness: the stored word has upper bits set and the value returned
\* is its lower 28 bits.
C15_Witness ==
    /\ result.op = "get_fat_entry"
    /\ bpb.fat_type = "Fat32"
    /\ result.res # Err
    /\ DeviceFatWord(bpb, fat, result.sector, result.byte_offset) = Mask28 + 3
    /\ result.res.some = 3

\* C16: get_fat_entry for FAT copy n >= 1 and entry i reads sector
\* reserved_sector_count + (i*w) / bytes_per_sector + (n-1) * fat_size at
\* byte offset (i*w) mod bytes_per_sector, w = 2 (FAT16) or 4 (FAT32).
C16_FatEntryLocation ==
    result.op = "get_fat_entry"
    => /\ result.sector =
            bpb.reserved_sector_count
                + ((result.cluster * EntryWidth(bpb.fat_type)) \div bpb.bytes_per_sector)
                + ((result.fat_number - 1) * bpb.fat_size)
       /\ result.byte_offset =
            (result.cluster * EntryWidth(bpb.fat_type)) % bpb.bytes_per_sector

\* C16 witness: an entry of the second FAT copy was asked for.
C16_Witness ==
    /\ result.op = "get_fat_entry"
    /\ result.fat_number = 2
    /\ result.cluster \in DataClusters

(***************************************************************************)
(* Claims about device errors during a read (SpecRead).                    *)
(***************************************************************************)
\* C17: a read during which a device access failed returns the device
\* error, not Ok with a byte count.
C17_ReadReportsDeviceError ==
    [][\A len \in BufLens, failAt \in FailAts :
        (/\ ReadRead(len, failAt)
         /\ failAt # 0
         /\ ActiveFile_read(open_entries, file, bpb, fat, len, failAt).ios >= failAt)
        => result'.res = "DeviceError"]_vars

\* C17 witness: the first device access of a read failed and the read
\* returned Ok with fewer bytes than the file holds.
C17_Witness ==
    /\ file # None
    /\ result.op = "read"
    /\ result.failed
    /\ result.res = "Ok"
    /\ delivered = 0
    /\ file.dir_entry.file_size > 0

(***************************************************************************)
(* PartitionBlockDevice: mbr.rs.  A u32 is the pair <<hi, lo>> of its      *)
(* 16-bit halves, so that sums keep their 32-bit width.  An addition that  *)
(* overflows panics in a build with overflow checks and wraps in one       *)
(* without.                                                                *)
(***************************************************************************)
U32_add(a, c) ==
    LET lo == a[2] + c[2]
        hi == a[1] + c[1] + (lo \div 65536)
    IN  [value |-> <<hi % 65536, lo % 65536>>, overflow |-> hi >= 65536]

U32_gt(a, c) == a[1] > c[1] \/ (a[1] = c[1] /\ a[2] > c[2])

Builds == {"overflow-checks", "wrapping"}

\* PartitionBlockDevice::range_check: "Ok", "OutOfRange", or "Panic".
PartitionBlockDevice_range_check(part, start, len, build) ==
    LET last_block == U32_add(start, len)
    IN  IF last_block.overflow /\ build = "overflow-checks" THEN "Panic"
        ELSE IF U32_gt(last_block.value, part.block_count) THEN "OutOfRange"
        ELSE "Ok"

\* PartitionBlockDevice::read of `len` blocks at `start`: what the call
\* returns and the block index handed to the underlying device, if any.
PartitionBlockDevice_read(part, start, len, build, device_ok) ==
    LET checked              == PartitionBlockDevice_range_check(part, start, len, build)
        part_start_block_idx == U32_add(start, part.lba_start)
    IN  IF checked # "Ok" THEN [res |-> checked, forwarded |-> None]
        ELSE IF part_start_block_idx.overflow /\ build = "overflow-checks"
        THEN [res |-> "Panic", forwarded |-> None]
        ELSE [res |-> IF device_ok THEN "Ok" ELSE "DeviceError",
              forwarded |-> Some(part_start_block_idx.value)]

\* PartitionBlockDevice::write
PartitionBlockDevice_write(part, start, len, build, device_ok) ==
    LET checked              == PartitionBlockDevice_range_check(part, start, len, build)
        part_start_block_idx == U32_add(start, part.lba_start)
    IN  IF checked # "Ok" THEN [res |-> checked, forwarded |-> None]
        ELSE IF part_start_block_idx.overflow /\ build = "overflow-checks"
        THEN [res |-> "Panic", forwarded |-> None]
        ELSE [res |-> IF device_ok THEN "Ok" ELSE "DeviceError",
              forwarded |-> Some(part_start_block_idx.value)]

\* The two partitions of the test image, and a small one.
Partitions ==
    {[lba_start |-> <<0, 2048>>,  block_count |-> <<4, 0>>],
     [lba_start |-> <<4, 2048>>,  block_count |-> <<11, 63488>>],
     [lba_start |-> <<0, 2048>>,  block_count |-> <<0, 8>>]}

\* Start indices around the end of each partition and of the u32 range.
PartStarts ==
    {<<0, 0>>, <<0, 7>>, <<0, 8>>, <<3, 65535>>, <<4, 0>>, <<11, 63487>>, <<11, 63488>>,
     <<65535, 65534>>, <<65535, 65535>>}

PartLens == {<<0, 0>>, <<0, 1>>, <<0, 2>>}

PartInit ==
    /\ iter = None
    /\ yielded = <<>>
    /\ partition \in Partitions
    /\ boot_sector = None
    /\ bpb = None
    /\ fat = <<>>
    /\ dir = <<>>
    /\ open_entries = EmptyTable
    /\ fd = 0
    /\ files = {}
    /\ file = None
    /\ delivered = 0
    /\ result = NoResult

\* device.read(blocks, start, reason) with blocks.len() = len
PartRead(start, len, build, device_ok) ==
    /\ \E r \in {PartitionBlockDevice_read(partition, start, len, build, device_ok)} :
        result' = [op |-> "read", start |-> start, len |-> len, res |-> r.res,
                   forwarded |-> r.forwarded]
    /\ UNCHANGED <<iter, yielded, partition, boot_sector, bpb, fat, dir, open_entries, fd, files, file,
                   delivered>>

\* device.write(blocks, start) with blocks.len() = len
PartWrite(start, len, build, device_ok) ==
    /\ \E r \in {PartitionBlockDevice_write(partition, start, len, build, device_ok)} :
        result' = [op |-> "write", start |-> start, len |-> len, res |-> r.res,
                   forwarded |-> r.forwarded]
    /\ UNCHANGED <<iter, yielded, partition, boot_sector, bpb, fat, dir, open_entries, fd, files, file,
                   delivered>>

PartNext ==
    \/ \E start \in PartStarts, len \in PartLens, build \in Builds, ok \in BOOLEAN :
            PartRead(start, len, build, ok)
    \/ \E start \in PartStarts, len \in PartLens, build \in Builds, ok \in BOOLEAN :
            PartWrite(start, len, build, ok)

SpecPartition == PartInit /\ [][PartNext]_vars

\* start + len <= block_count, as numbers.
FitsPartition(part, start, len) ==
    /\ ~U32_add(start, len).overflow
    /\ ~U32_gt(U32_add(start, len).value, part.block_count)

\* C18: a read or write is handed to the underlying device, at index
\* start + lba_start, exactly when start + len <= block_count; every other
\* request, one whose sum does not fit in 32 bits included, returns
\* OutOfRange and does not reach the underlying device.
C18_PartitionRangeCheck ==
    result.op \in {"read", "write"}
    => IF FitsPartition(partition, result.start, result.len)
       THEN result.forwarded = Some(U32_add(result.start, partition.lba_start).value)
       ELSE result.res = "OutOfRange" /\ result.forwarded = None

\* C18 witness: a request whose start + len does not fit in 32 bits was
\* handed to the underlying device.
C18_Witness ==
    /\ result.op \in {"read", "write"}
    /\ U32_add(result.start, result.len).overflow
    /\ result.forwarded # None

(***************************************************************************)
(* BiosParameterBlock::new: bios_param_block.rs.  The boot sector is the   *)
(* record of its raw fields; the u32 fields are pairs of 16-bit halves.    *)
(***************************************************************************)
U32_sub(a, c) ==
    LET lo == a[2] - c[2]
        hi == (a[1] - c[1]) - (IF lo < 0 THEN 1 ELSE 0)
    IN  [value |-> <<(hi + 65536) % 65536, (lo + 65536) % 65536>>, overflow |-> hi < 0]

\* n * a for n below 256 (num_fats as u32)
U32_mul(n, a) ==
    LET lo == a[2] * n
        hi == (a[1] * n) + (lo \div 65536)
    IN  [value |-> <<hi % 65536, lo % 65536>>, overflow |-> hi >= 65536]

\* a / n for n in 1..128 (sectors_per_cluster)
U32_div(a, n) ==
    <<a[1] \div n, (((a[1] % n) * 65536) + a[2]) \div n>>

U32_lt(a, c) == U32_gt(c, a)

\* The value of a u32 below 2^31.
U32_value(a) == (a[1] * 65536) + a[2]

SIGNATURE == <<85, 170>>

bytes_per_sector_checked(bytes_per_sec) ==
    IF bytes_per_sec \in {512, 1024, 2048, 4096}
    THEN Some(bytes_per_sec) ELSE [err |-> "InvalidBytesPerSector"]

sectors_per_cluster_checked(sectors_per_cluster) ==
    IF sectors_per_cluster \in {1, 2, 4, 8, 16, 32, 64, 128}
    THEN Some(sectors_per_cluster) ELSE [err |-> "InvalidSectorsPerCluster"]

media_checked(media) ==
    IF media \in ({240} \cup (248..255))
    THEN Some(media) ELSE [err |-> "InvalidMedia"]

total_sector_count_checked(raw) ==
    LET sec_16 == raw.tot_sec_16
        sec_32 == raw.tot_sec_32
    IN  IF sec_16 = 0 /\ sec_32 # <<0, 0>> THEN Some(sec_32)
        ELSE IF sec_32 = <<0, 0>> /\ sec_16 # 0 THEN Some(<<0, sec_16>>)
        ELSE IF sec_32 # <<0, 0>> /\ sec_16 # 0 THEN [err |-> "BothSectorCountsNotZero"]
        ELSE [err |-> "BothSectorCountsZero"]

\* total_sector_count - (reserved_sectors + (num_fats * fat_size) + root_dir_sectors)
\* in u32: [panic |-> TRUE] when a step overflows in a build with overflow
\* checks, the wrapped value otherwise.
compute_data_sectors(fat_size, total_sector_count, reserved_sectors, num_fats, root_dir_sectors, build) ==
    LET product == U32_mul(num_fats, fat_size)
        sum1    == U32_add(<<0, reserved_sectors>>, product.value)
        sum2    == U32_add(sum1.value, <<0, root_dir_sectors>>)
        diff    == U32_sub(total_sector_count, sum2.value)
    IN  IF /\ build = "overflow-checks"
           /\ (product.overflow \/ sum1.overflow \/ sum2.overflow \/ diff.overflow)
        THEN [panic |-> TRUE]
        ELSE [value |-> diff.value]

compute_cluster_count(data_sectors, sectors_per_cluster) ==
    U32_div(data_sectors, sectors_per_cluster)

root_cluster_checked(root_cluster) ==
    IF ~U32_lt(root_cluster, <<0, 2>>)
    THEN Some(root_cluster) ELSE [err |-> "Fat32(RootClusterLessThanTwo)"]

\* Not called by BiosParameterBlock::new.
fs_version_checked(fs_version) ==
    IF fs_version = 0 THEN Some(fs_version) ELSE [err |-> "Fat32(FsVerNotZero)"]

\* Not called by BiosParameterBlock::new.
bk_boot_sector_checked(bk_boot_sector) ==
    IF bk_boot_sector = 0 \/ bk_boot_sector = 6
    THEN Some(bk_boot_sector) ELSE [err |-> "Fat32(InvalidBackupBootSector)"]

compute_fat_type(cluster_count, raw) ==
    IF U32_lt(cluster_count, <<0, 4085>>) THEN [err |-> "Fat12NotSupported"]
    ELSE IF U32_lt(cluster_count, <<0, 65525>>) THEN Some([fat_type |-> "Fat16"])
    ELSE LET root_cluster == root_cluster_checked(raw.root_clus)
         IN  IF "err" \in DOMAIN root_cluster THEN root_cluster
             ELSE Some([fat_type |-> "Fat32", root_cluster |-> root_cluster.some])

verify_signature(signature) ==
    IF signature = SIGNATURE THEN None ELSE Some("InvalidSignature")

verify_root_entry_count(me) ==
    IF me.fat_type = "Fat16"
    THEN IF (me.root_entry_count * 32) % me.bytes_per_sector = 0
         THEN None ELSE Some("RootEntryCountSize")
    ELSE IF me.root_entry_count # 0
         THEN Some("Fat32(RootEntryCountNotZero)") ELSE None

verify_total_sector_count(me, raw) ==
    IF raw.tot_sec_16 = 0 /\ raw.tot_sec_32 = <<0, 0>> THEN Some("BothSectorCountsZero")
    ELSE IF me.fat_type = "Fat16" THEN None
    ELSE IF raw.tot_sec_16 = 0 THEN None ELSE Some("Fat32(Count16NotZero)")

verify_fat_size(me, raw) ==
    IF me.fat_type = "Fat16" THEN None
    ELSE IF raw.fat_sz_16 = 0 THEN None ELSE Some("Fat32(FatSize16NotZero)")

\* a.or_else(|| c) on Option values
or_else(a, c) == IF a # None THEN a ELSE c

\* BiosParameterBlock::new: [ok |-> the parameter block], [err |-> the
\* BpbError] or [panic |-> TRUE].
BiosParameterBlock_new(raw, build) ==
    IF raw.rsvd_sec_cnt = 0 THEN [err |-> "ReservedSectorCountZero"]
    ELSE LET bytes_per_sector == bytes_per_sector_checked(raw.bytes_per_sec)
             fat_size == IF raw.fat_sz_16 = 0 THEN raw.fat_sz_32 ELSE <<0, raw.fat_sz_16>>
             sectors_per_cluster == sectors_per_cluster_checked(raw.sec_per_clu)
             media == media_checked(raw.media)
             total_sector_count == total_sector_count_checked(raw)
         IN
         IF "err" \in DOMAIN bytes_per_sector THEN bytes_per_sector
         ELSE IF "err" \in DOMAIN sectors_per_cluster THEN sectors_per_cluster
         ELSE IF "err" \in DOMAIN media THEN media
         ELSE IF "err" \in DOMAIN total_sector_count THEN total_sector_count
         ELSE LET root_dir_sectors ==
                      compute_root_dir_sectors(raw.root_ent_cnt, bytes_per_sector.some)
                  data_sectors ==
                      compute_data_sectors(fat_size, total_sector_count.some,
                                           raw.rsvd_sec_cnt, raw.num_fats,
                                           root_dir_sectors, build)
              IN
              IF "panic" \in DOMAIN data_sectors THEN data_sectors
              ELSE LET cluster_count ==
                           compute_cluster_count(data_sectors.value, sectors_per_cluster.some)
                       fat_info == compute_fat_type(cluster_count, raw)
                   IN
                   IF "err" \in DOMAIN fat_info THEN fat_info
                   ELSE LET me == [fat_type |-> fat_info.some.fat_type,
                                   fat_info |-> fat_info.some,
                                   fat_size |-> U32_value(fat_size),
                                   reserved_sector_count |-> raw.rsvd_sec_cnt,
                                   bytes_per_sector |-> bytes_per_sector.some,
                                   media |-> media.some,
                                   root_entry_count |-> raw.root_ent_cnt,
                                   cluster_count |-> cluster_count,
                                   num_fats |-> raw.num_fats,
                                   sectors_per_cluster |-> sectors_per_cluster.some]
                            verification_error ==
                                or_else(or_else(or_else(verify_signature(raw.signature_word),
                                                        verify_root_entry_count(me)),
                                                verify_total_sector_count(me, raw)),
                                        verify_fat_size(me, raw))
                        IN  IF verification_error # None
                            THEN [err |-> verification_error.some]
                            ELSE [ok |-> me]

\* Sector 0 images: a FAT12-sized, a FAT16-sized and a FAT32-sized volume,
\* a total sector count smaller than the reserved and FAT regions, and
\* each field the parser looks at with a value it accepts and one it does
\* not.  Every size stays below 2^31.
BootSectors ==
    [bytes_per_sec : {512, 500},
     sec_per_clu   : {1, 4, 3},
     rsvd_sec_cnt  : {0, 1, 32},
     num_fats      : {2},
     root_ent_cnt  : {0, 8, 512},
     tot_sec_16    : {0, 2880, 20000},
     media         : {248, 0},
     fat_sz_16     : {0, 80},
     tot_sec_32    : {<<0, 0>>, <<0, 100>>, <<8, 0>>},
     fat_sz_32     : {<<0, 0>>, <<0, 1024>>},
     fs_ver        : {0, 1},
     root_clus     : {<<0, 1>>, <<0, 2>>},
     bk_boot_sec   : {0, 6, 7},
     signature_word : {SIGNATURE, <<0, 0>>}]

BpbInit ==
    /\ iter = None
    /\ yielded = <<>>
    /\ partition = None
    /\ boot_sector \in BootSectors
    /\ bpb = None
    /\ fat = <<>>
    /\ dir = <<>>
    /\ open_entries = EmptyTable
    /\ fd = 0
    /\ files = {}
    /\ file = None
    /\ delivered = 0
    /\ result = NoResult

\* BiosParameterBlock::new(block) on the sector 0 read from the device
BpbNew(build) ==
    /\ \E r \in {BiosParameterBlock_new(boot_sector, build)} :
        /\ bpb' = IF "ok" \in DOMAIN r THEN r.ok ELSE None
        /\ result' = [op |-> "new", build |-> build,
                      res |-> IF "ok" \in DOMAIN r THEN "Ok"
                              ELSE IF "err" \in DOMAIN r THEN r.err ELSE "Panic"]
    /\ UNCHANGED <<iter, yielded, partition, boot_sector, fat, dir, open_entries, fd, files, file,
                   delivered>>

BpbNext == \E build \in Builds : BpbNew(build)

SpecBpb == BpbInit /\ [][BpbNext]_vars

\* total_sectors - (reserved_sector_count + num_fats * fat_size + root_len),
\* as a number, for the sector 0 a parameter block b was parsed from.
TotalSectors(raw) ==
    IF raw.tot_sec_16 = 0 THEN U32_value(raw.tot_sec_32) ELSE raw.tot_sec_16
DataSectors(raw, b) ==
    TotalSectors(raw) - (b.reserved_sector_count + (b.num_fats * b.fat_size) + root_len(b))

\* cluster_count * sectors_per_cluster <= n, as numbers.
ClustersFit(b, n) ==
    /\ n >= 0
    /\ ~U32_gt(b.cluster_count,
               <<(n \div b.sectors_per_cluster) \div 65536,
                 (n \div b.sectors_per_cluster) % 65536>>)

\* C19: every successfully parsed parameter block has
\* data_start = fat_start + fat_len + root_len, and its cluster_count times
\* sectors_per_cluster is at most total_sectors minus the reserved sectors,
\* the FAT copies and the root region.
C19_Geometry ==
    (result.op = "new" /\ result.res = "Ok")
    => /\ data_start(bpb) = fat_start(bpb) + fat_len(bpb) + root_len(bpb)
       /\ ClustersFit(bpb, DataSectors(boot_sector, bpb))

\* C19 witness: a sector 0 whose total sector count is smaller than its
\* reserved and FAT regions was parsed successfully.
C19_Witness ==
    /\ result.op = "new" /\ result.res = "Ok"
    /\ DataSectors(boot_sector, bpb) < 0

\* C20: no FAT32 parameter block comes out of a sector 0 whose root_cluster
\* is below 2, whose fs_version is not 0, or whose backup boot sector is
\* neither 0 nor 6.
C20_Fat32FieldsChecked ==
    (result.op = "new" /\ result.res = "Ok" /\ bpb.fat_type = "Fat32")
    => /\ ~U32_lt(boot_sector.root_clus, <<0, 2>>)
       /\ boot_sector.fs_ver = 0
       /\ boot_sector.bk_boot_sec \in {0, 6}

\* C20 witness: a FAT32 sector 0 of consistent geometry with fs_version 1
\* and backup boot sector 7 was parsed successfully.
C20_Witness ==
    /\ result.op = "new" /\ result.res = "Ok" /\ bpb.fat_type = "Fat32"
    /\ DataSectors(boot_sector, bpb) >= 0
    /\ boot_sector.fs_ver = 1
    /\ boot_sector.bk_boot_sec = 7

(***************************************************************************)
(* BiosParameterBlockRaw: the accessors define_field! generates            *)
(* (structure.rs) over the bytes of a Block.  The block is the function    *)
(* from the byte offsets of the parameter block and of the signature to    *)
(* bytes.                                                                  *)
(***************************************************************************)
RawOffsets == (11..51) \cup {510, 511}

\* define_field!(name, set_name, type, offset) of BiosParameterBlockRaw
RawFields ==
    {[name |-> "bytes_per_sec",     width |-> 2, offset |-> 11],
     [name |-> "sec_per_clu",       width |-> 1, offset |-> 13],
     [name |-> "rsvd_sec_cnt",      width |-> 2, offset |-> 14],
     [name |-> "num_fats",          width |-> 1, offset |-> 16],
     [name |-> "root_ent_cnt",      width |-> 2, offset |-> 17],
     [name |-> "tot_sec_16",        width |-> 2, offset |-> 19],
     [name |-> "media",             width |-> 1, offset |-> 21],
     [name |-> "fat_sz_16",         width |-> 2, offset |-> 22],
     [name |-> "sectors_per_track", width |-> 2, offset |-> 24],
     [name |-> "number_of_heads",   width |-> 2, offset |-> 26],
     [name |-> "hidden_sectors",    width |-> 4, offset |-> 28],
     [name |-> "tot_sec_32",        width |-> 4, offset |-> 32],
     [name |-> "fat_sz_32",         width |-> 4, offset |-> 36],
     [name |-> "ext_flags",         width |-> 2, offset |-> 40],
     [name |-> "fs_ver",            width |-> 2, offset |-> 42],
     [name |-> "root_clus",         width |-> 4, offset |-> 44],
     [name |-> "fs_info",           width |-> 2, offset |-> 48],
     [name |-> "bk_boot_sec",       width |-> 2, offset |-> 50]}

\* u16::from_le_bytes, value.to_le_bytes
u16_from_le_bytes(data, offset) == data[offset] + (256 * data[offset + 1])
u16_to_le_bytes(value) == <<value % 256, value \div 256>>

\* u32::from_le_bytes, as the pair of 16-bit halves <<hi, lo>>
u32_from_le_bytes(data, offset) ==
    <<u16_from_le_bytes(data, offset + 2), u16_from_le_bytes(data, offset)>>

\* The getter of a field.
field_get(data, f) ==
    IF f.width = 1 THEN data[f.offset]
    ELSE IF f.width = 2 THEN u16_from_le_bytes(data, f.offset)
    ELSE u32_from_le_bytes(data, f.offset)

\* The u8 setter: self.data_mut()[offset] = value
set_u8(data, offset, value) == [data EXCEPT ![offset] = value]

\* The u16 setter: copy_from_slice(&value.to_le_bytes())
set_u16(data, offset, value) ==
    [data EXCEPT ![offset] = u16_to_le_bytes(value)[1],
                 ![offset + 1] = u16_to_le_bytes(value)[2]]

\* The function the u32 arm generates under the setter's name: it takes
\* no value, reads the field and leaves the block as it is.
set_u32(data, offset) ==
    [data |-> data, returned |-> u32_from_le_bytes(data, offset)]

\* Block::new(), a block whose bytes are all different from each other,
\* and a block of 0xFF bytes.
RawBlocks ==
    {[o \in RawOffsets |-> 0],
     [o \in RawOffsets |-> o % 256],
     [o \in RawOffsets |-> 255]}

RawU8s  == {0, 1, 250, 255}
RawU16s == {0, 1, 256, 513, 43605, 65535}
RawU32s == {<<0, 0>>, <<0, 1>>, <<1, 0>>, <<258, 772>>, <<65535, 65535>>}

RawInit ==
    /\ iter = None
    /\ yielded = <<>>
    /\ partition = None
    /\ boot_sector \in RawBlocks
    /\ bpb = None
    /\ fat = <<>>
    /\ dir = <<>>
    /\ open_entries = EmptyTable
    /\ fd = 0
    /\ files = {}
    /\ file = None
    /\ delivered = 0
    /\ result = NoResult

\* raw.set_<u8 field>(value); raw.<field>()
RawSetU8(f, value) ==
    /\ result = NoResult
    /\ f.width = 1
    /\ boot_sector' = set_u8(boot_sector, f.offset, value)
    /\ result' = [op |-> "set", field |-> f, value |-> value, before |-> boot_sector,
                  got |-> field_get(boot_sector', f)]
    /\ UNCHANGED <<iter, yielded, partition, bpb, fat, dir, open_entries, fd, files, file, delivered>>

\* raw.set_<u16 field>(value); raw.<field>()
RawSetU16(f, value) ==
    /\ result = NoResult
    /\ f.width = 2
    /\ boot_sector' = set_u16(boot_sector, f.offset, value)
    /\ result' = [op |-> "set", field |-> f, value |-> value, before |-> boot_sector,
                  got |-> field_get(boot_sector', f)]
    /\ UNCHANGED <<iter, yielded, partition, bpb, fat, dir, open_entries, fd, files, file, delivered>>

\* raw.set_<u32 field>() by a caller that wants the field to hold value;
\* raw.<field>()
RawSetU32(f, value) ==
    /\ result = NoResult
    /\ f.width = 4
    /\ boot_sector' = set_u32(boot_sector, f.offset).data
    /\ result' = [op |-> "set", field |-> f, value |-> value, before |-> boot_sector,
                  got |-> field_get(boot_sector', f)]
    /\ UNCHANGED <<iter, yielded, partition, bpb, fat, dir, open_entries, fd, files, file, delivered>>

RawNext ==
    \/ \E f \in RawFields, value \in RawU8s : RawSetU8(f, value)
    \/ \E f \in RawFields, value \in RawU16s : RawSetU16(f, value)
    \/ \E f \in RawFields, value \in RawU32s : RawSetU32(f, value)

SpecRaw == RawInit /\ [][RawNext]_vars

\* The byte offsets a field occupies.
FieldBytes(f) == f.offset .. (f.offset + f.width - 1)

\* C21: after the setter of a field was called for a value, the getter of
\* the field returns that value and every byte outside the field is as it
\* was, for the u8, u16 and u32 fields alike.
C21_FieldRoundTrip ==
    result.op = "set"
    => /\ result.got = result.value
       /\ \A o \in RawOffsets \ FieldBytes(result.field) :
              boot_sector[o] = result.before[o]

\* C21 witness: the setter of a u32 field was called for a value the field
\* did not hold, and the getter does not return it.
C21_Witness ==
    /\ result.op = "set"
    /\ result.field.width = 4
    /\ field_get(result.before, result.field) # result.value
    /\ result.got # result.value

(***************************************************************************)
(* Root directory sector iterator: fat/root_directory.rs.                  *)
(***************************************************************************)
MaxYield == 4

\* BiosParameterBlock::root_sectors
root_sectors(b) ==
    IF b.fat_type = "Fat16"
    THEN [kind |-> "Region", start_block |-> root_start(b), len |-> root_len(b)]
    ELSE [kind |-> "Cluster", cluster |-> b.fat_info.root_cluster]

\* RootDirIter::new
RootDirIter_new(fat_number, start) ==
    [current |-> start, fat_number |-> fat_number, iterated_cluster_sectors |-> 0]

\* iter.skip(n).next() on a BlockIter
BlockIter_skip_next(range, n) ==
    IF range.current + n < range.end THEN Some(range.current + n) ELSE None

\* RootDirIter::next: [it, sector (None at the end)].
RootDirIter_next(it, b, f) ==
    IF it.current.kind = "Cluster"
    THEN IF it.iterated_cluster_sectors = b.sectors_per_cluster
         THEN LET nxt == find_next_cluster(b, f, it.fat_number, it.current.cluster) IN
              IF nxt = None \/ nxt = Err
              THEN [it |-> it, sector |-> None]
              ELSE [it |-> [it EXCEPT !.current.cluster = nxt.some,
                                      !.iterated_cluster_sectors = 0],
                    sector |-> BlockIter_skip_next(
                        Cluster_sectors(nxt.some, data_start(b), b.sectors_per_cluster), 0)]
         ELSE [it |-> it,
               sector |-> BlockIter_skip_next(
                   Cluster_sectors(it.current.cluster, data_start(b), b.sectors_per_cluster),
                   it.iterated_cluster_sectors)]
    ELSE IF it.current.len # 0
         THEN [it |-> [it EXCEPT !.current.len = it.current.len - 1,
                                 !.current.start_block = it.current.start_block + 1],
               sector |-> Some(it.current.start_block)]
         ELSE [it |-> it, sector |-> None]

\* Parameter blocks with a root region of 0, 1 and 2 sectors, and with a
\* root cluster.
RootBpbs ==
    { [Fat16Bpb EXCEPT !.root_entry_count = n] : n \in {0, 16, 32} }
        \cup { [x \in DOMAIN Fat32Bpb \cup {"fat_info"} |->
                    IF x = "fat_info" THEN [fat_type |-> "Fat32", root_cluster |-> c]
                    ELSE Fat32Bpb[x]] : c \in {2, MaxCluster} }

RootInit ==
    /\ iter = None
    /\ yielded = <<>>
    /\ partition = None
    /\ boot_sector = None
    /\ bpb \in RootBpbs
    /\ \E t \in FatCopies(bpb.fat_type) : fat = [copy \in 1..bpb.num_fats |-> t]
    /\ dir = <<>>
    /\ open_entries = EmptyTable
    /\ fd = 0
    /\ files = {}
    /\ file = None
    /\ delivered = 0
    /\ result = NoResult

\* volume.bpb.root_sectors().iter(1)
RootIter ==
    /\ iter = None
    /\ iter' = RootDirIter_new(1, root_sectors(bpb))
    /\ result' = [op |-> "root_iter", start |-> root_sectors(bpb), ended |-> FALSE]
    /\ UNCHANGED <<yielded, partition, boot_sector, bpb, fat, dir, open_entries, fd, files,
                   file, delivered>>

\* iter.next(volume)
RootIterNext ==
    /\ iter # None
    /\ Len(yielded) < MaxYield
    /\ \E r \in {RootDirIter_next(iter, bpb, fat)} :
        /\ iter' = r.it
        /\ yielded' = IF r.sector = None THEN yielded ELSE Append(yielded, r.sector.some)
        /\ result' = [op |-> "root_next", start |-> result.start, ended |-> r.sector = None]
    /\ UNCHANGED <<partition, boot_sector, bpb, fat, dir, open_entries, fd, files, file,
                   delivered>>

RootNext == RootIter \/ RootIterNext

SpecRoot == RootInit /\ [][RootNext]_vars

\* The first `cap` sectors a ClusterSectorIterator yields from its state it.
RECURSIVE ClusterSectorIterator_take(_, _, _, _)
ClusterSectorIterator_take(it, b, f, cap) ==
    IF cap = 0 THEN <<>>
    ELSE LET r == ClusterSectorIterator_next(it, b, f, 0, 0) IN
         IF r.sector = None THEN <<>>
         ELSE <<r.sector.some>> \o ClusterSectorIterator_take(r.it, b, f, cap - 1)

\* The sectors of the root directory, cut after MaxYield + 1 of them.
RootSectors(b, f, start) ==
    IF start.kind = "Region"
    THEN [i \in 1..Min(start.len, MaxYield + 1) |-> start.start_block + (i - 1)]
    ELSE ClusterSectorIterator_take(
             ClusterSectorIterator_new(1, data_start(b), start.cluster, b.sectors_per_cluster),
             b, f, MaxYield + 1)

IsPrefix(s, t) == Len(s) <= Len(t) /\ \A i \in 1..Len(s) : s[i] = t[i]

\* C22: the root-directory iterator yields the sectors of the root
\* directory, each once and in order (the region's sectors, or the sectors
\* a ClusterSectorIterator yields from the root cluster), and when it ends
\* it has yielded all of them.
C22_RootSectors ==
    result.op \in {"root_iter", "root_next"}
    => /\ IsPrefix(yielded, RootSectors(bpb, fat, result.start))
       /\ result.ended => yielded = RootSectors(bpb, fat, result.start)

\* C22 witness: an iterator over a root cluster yielded the same sector
\* twice in a row.
C22_Witness ==
    /\ result.op = "root_next"
    /\ result.start.kind = "Cluster"
    /\ Len(yielded) >= 2
    /\ yielded[1] = yielded[2]

(***************************************************************************)
(* Stepping a directory iterator: DirIter::next called again and again on  *)
(* the parent directory, whose first MaxDirSlots slots hold any mix of     *)
(* live, free, long-name and end-of-directory slots.                       *)
(***************************************************************************)
MaxDirSlots == 4

SlotKinds == {"end", "free", "live", "lfn_last", "lfn"}

\* The slot of a kind at position i: its name and its long-name fragment
\* tell the position.
SlotOfKind(kind, i) ==
    CASE kind = "end"      -> ZeroSlot
      [] kind = "free"     -> ShortSlot(229, ARCHIVE, 0, 0)
      [] kind = "live"     -> ShortSlot(64 + i, ARCHIVE, 0, 0)
      [] kind = "lfn_last" -> LongSlot(66, 100 + i)
      [] kind = "lfn"      -> LongSlot(1, 100 + i)

DirImages(b) ==
    { [s \in {Cluster_sectors(ParentDir.first_cluster, data_start(b),
                              b.sectors_per_cluster).current} |->
          [i \in 1..SlotsPerBlock |->
              IF i <= MaxDirSlots THEN SlotOfKind(kinds[i], i) ELSE ZeroSlot]] :
        kinds \in [1..MaxDirSlots -> SlotKinds] }

DirInit ==
    /\ iter = None
    /\ yielded = <<>>
    /\ partition = None
    /\ boot_sector = None
    /\ bpb \in Bpbs
    /\ fat = [copy \in 1..bpb.num_fats |-> SingleClusterFat(bpb.fat_type)]
    /\ dir \in DirImages(bpb)
    /\ open_entries = EmptyTable
    /\ fd = 0
    /\ files = {}
    /\ file = None
    /\ delivered = 0
    /\ result = NoResult

\* test_dir.iter_subdir(volume)
DirIterStart ==
    /\ iter = None
    /\ iter' = iter_subdir(ParentDir, bpb).some
    /\ result' = [op |-> "iter_subdir"]
    /\ UNCHANGED <<yielded, partition, boot_sector, bpb, fat, dir, open_entries, fd, files,
                   file, delivered>>

\* iter.next(): an emitted entry is recorded with the number of the slot
\* its short entry was read from (the slots read so far).
DirIterNext ==
    /\ iter # None
    /\ iter.total_entries_read < MaxDirSlots + 2
    /\ \E r \in {DirIter_next(iter, bpb, fat, dir)} :
        /\ iter' = r.it
        /\ yielded' = IF r.entry = None THEN yielded
                      ELSE Append(yielded, [entry |-> r.entry.some,
                                            slot  |-> r.it.total_entries_read])
        /\ result' = [op |-> "dir_next", entry |-> r.entry]
    /\ UNCHANGED <<partition, boot_sector, bpb, fat, dir, open_entries, fd, files, file,
                   delivered>>

DirNext == DirIterStart \/ DirIterNext

SpecDir == DirInit /\ [][DirNext]_vars

\* The sector of the parent directory and its n-th slot.
DirSector(b) ==
    Cluster_sectors(ParentDir.first_cluster, data_start(b), b.sectors_per_cluster).current
DirSlot(b, d, n) == SectorSlots(d, DirSector(b))[n]

\* C23: no emitted entry has a first name byte of 0x00 or 0xE5, and no
\* emitted entry lies after a short slot whose first name byte is 0x00,
\* whatever the number of next() calls made after a None.
C23_EndOfDirectory ==
    \A i \in 1..Len(yielded) :
        /\ yielded[i].entry.name[1] \notin {0, 229}
        /\ \A j \in 1..(yielded[i].slot - 1) :
               ~(/\ ~Attributes_is_long_name(DirSlot(bpb, dir, j).attr)
                 /\ DirSlot(bpb, dir, j).name[1] = 0)

\* C23 witness: next() returned None at an end-of-directory slot and a
\* later call emitted the entry of the slot behind it.
C23_Witness ==
    /\ Len(yielded) = 1
    /\ yielded[1].slot = 2
    /\ DirSlot(bpb, dir, 1) = ZeroSlot

\* C24: the location of every emitted entry is the sector and the byte
\* offset of the 32-byte slot its short entry was decoded from.
C24_LocationIsOwnSlot ==
    \A i \in 1..Len(yielded) :
        yielded[i].entry.location =
            [sector |-> DirSector(bpb), byte_offset |-> (yielded[i].slot - 1) * 32]

\* C24 witness: the entry of the first slot was emitted with the byte
\* offset of the second slot.
C24_Witness ==
    /\ Len(yielded) >= 1
    /\ yielded[1].slot = 1
    /\ yielded[1].entry.name = DirSlot(bpb, dir, 1).name
    /\ yielded[1].entry.location = [sector |-> DirSector(bpb), byte_offset |-> 32]

\* The slots a long name was built from: a fragment tells its slot.
FragmentSlots(long_name) == { long_name[o][2] - 100 : o \in DOMAIN long_name }

\* The last short slot (live, free or end of directory) before slot k; 0
\* when there is none.
PrecedingShort(b, d, k) ==
    LET shorts == { j \in 1..(k - 1) : ~Attributes_is_long_name(DirSlot(b, d, j).attr) }
    IN  IF shorts = {} THEN 0 ELSE CHOOSE j \in shorts : \A x \in shorts : x <= j

\* C25: the long name of an emitted entry is built only from long-name
\* slots lying between the preceding short slot and the entry's own short
\* slot.
C25_LongNameFromOwnSlots ==
    \A i \in 1..Len(yielded) :
        FragmentSlots(yielded[i].entry.long_name)
            \subseteq (PrecedingShort(bpb, dir, yielded[i].slot) + 1) .. (yielded[i].slot - 1)

\* C25 witness: a long-name slot, a free slot, a long-name slot and a live
\* slot; the entry of the live slot carries the fragment of the third slot.
C25_Witness ==
    /\ Len(yielded) = 1
    /\ yielded[1].slot = 4
    /\ Attributes_is_long_name(DirSlot(bpb, dir, 1).attr)
    /\ DirSlot(bpb, dir, 1).name[1] = 66
    /\ DirSlot(bpb, dir, 2).name[1] = 229
    /\ FragmentSlots(yielded[1].entry.long_name) = {3}

\* C26: after a reset the sector iterator is the one of a freshly opened
\* file (it starts at first_cluster), no sector is buffered, the cumulative
\* counter is 0, and a read of any length returns what the same read
\* returns on the freshly opened file, with the same state behind it.
C26_ResetIsFresh ==
    (file # None /\ result.op = "reset")
    => /\ file.read_cache.sectors = all_sectors(bpb, file.dir_entry.first_cluster)
       /\ file.read_cache.current_cache = None
       /\ file.read_cache.total_read = 0
       /\ \A len \in BufLens :
              ActiveFile_read(open_entries, file, bpb, fat, len, 0)
                  = ActiveFile_read(open_entries,
                                    File_from_dir_entry(file.dir_entry, bpb, file.mode,
                                                        file.fd),
                                    bpb, fat, len, 0)

\* C26 witness: a file of 1536 bytes was reset after reads had delivered
\* bytes from it.
C26_Witness ==
    /\ file # None
    /\ result.op = "reset"
    /\ result.delivered > 0
    /\ file.dir_entry.file_size = 1536

(***************************************************************************)
(* Master boot record: mbr.rs.  Sector 0 is the function from the byte     *)
(* offsets of the four partition records and of the footer to bytes.       *)
(***************************************************************************)
STATUS_IDX == 0
TYPE_IDX == 4
LBA_START_IDX == 8
NUM_BLOCKS_IDX == 12
PARTITION_INFO_LENGTH == 16
FOOTER_START == 510
FOOTER_VALUE == 43605
PARTITION1_START == 446
PARTITION2_START == PARTITION1_START + PARTITION_INFO_LENGTH
PARTITION3_START == PARTITION2_START + PARTITION_INFO_LENGTH
PARTITION4_START == PARTITION3_START + PARTITION_INFO_LENGTH

\* PartitionNumber::from_number
PartitionNumber_from_number(number) ==
    CASE number = 1 -> Some("One")
      [] number = 2 -> Some("One")
      [] number = 3 -> Some("Two")
      [] number = 4 -> Some("Three")
      [] OTHER      -> None

\* PartitionType::from_u8
PartitionType_from_u8(value) ==
    CASE value = 11 -> "Fat32ChsLba"
      [] value = 12 -> "Fat32Lba"
      [] value = 14 -> "Fat16Lba"
      [] value = 6  -> "Fat16"
      [] OTHER      -> <<"Unknown", value>>

\* Partition::from_info on the 16 bytes of `block` from `start`
Partition_from_info(block, start) ==
    LET pstatus == block[start + STATUS_IDX]
    IN  IF pstatus # 128 /\ pstatus # 0
        THEN [err |-> "InvalidPartitionStatus"]
        ELSE [ok |-> [ty          |-> PartitionType_from_u8(block[start + TYPE_IDX]),
                      lba_start   |-> u32_from_le_bytes(block, start + LBA_START_IDX),
                      block_count |-> u32_from_le_bytes(block, start + NUM_BLOCKS_IDX)]]

\* Mbr::read_partition on the sector 0 the device returned
Mbr_read_partition(first_block, partition_num) ==
    LET footer == u16_from_le_bytes(first_block, FOOTER_START)
        pinfo_start == CASE partition_num = "One"   -> PARTITION1_START
                         [] partition_num = "Two"   -> PARTITION2_START
                         [] partition_num = "Three" -> PARTITION3_START
                         [] partition_num = "Four"  -> PARTITION4_START
    IN  IF footer # FOOTER_VALUE THEN [err |-> "InvalidMbrSignature"]
        ELSE Partition_from_info(first_block, pinfo_start)

\* The 16 bytes of a partition record.
PartitionRecord(status, ty, lba_start, block_count) ==
    [k \in 0..(PARTITION_INFO_LENGTH - 1) |->
        CASE k = STATUS_IDX         -> status
          [] k = TYPE_IDX           -> ty
          [] k = LBA_START_IDX      -> lba_start[2] % 256
          [] k = LBA_START_IDX + 1  -> lba_start[2] \div 256
          [] k = LBA_START_IDX + 2  -> lba_start[1] % 256
          [] k = LBA_START_IDX + 3  -> lba_start[1] \div 256
          [] k = NUM_BLOCKS_IDX     -> block_count[2] % 256
          [] k = NUM_BLOCKS_IDX + 1 -> block_count[2] \div 256
          [] k = NUM_BLOCKS_IDX + 2 -> block_count[1] % 256
          [] k = NUM_BLOCKS_IDX + 3 -> block_count[1] \div 256
          [] OTHER                  -> 0]

\* The two partitions of the test image, an unused record and a record of
\* invalid status.
PartitionRecords ==
    {PartitionRecord(128, 12, <<0, 2048>>, <<4, 0>>),
     PartitionRecord(0, 6, <<4, 2048>>, <<11, 63488>>),
     PartitionRecord(0, 0, <<0, 0>>, <<0, 0>>),
     PartitionRecord(127, 12, <<0, 1>>, <<0, 1>>)}

MbrBlocks ==
    { [o \in PARTITION1_START..(FOOTER_START + 1) |->
          IF o >= FOOTER_START
          THEN u16_to_le_bytes(footer)[(o - FOOTER_START) + 1]
          ELSE records[((o - PARTITION1_START) \div PARTITION_INFO_LENGTH) + 1]
                      [(o - PARTITION1_START) % PARTITION_INFO_LENGTH]] :
        records \in [1..4 -> PartitionRecords], footer \in {FOOTER_VALUE, 0} }

PartitionNumbers == 0..5

MbrInit ==
    /\ iter = None
    /\ yielded = <<>>
    /\ partition = None
    /\ boot_sector \in MbrBlocks
    /\ bpb = None
    /\ fat = <<>>
    /\ dir = <<>>
    /\ open_entries = EmptyTable
    /\ fd = 0
    /\ files = {}
    /\ file = None
    /\ delivered = 0
    /\ result = NoResult

\* PartitionNumber::from_number(n), then Mbr::read_partition
MbrSelect(n) ==
    /\ \E pn \in {PartitionNumber_from_number(n)} :
        \E r \in {IF pn = None THEN [none |-> TRUE]
                  ELSE Mbr_read_partition(boot_sector, pn.some)} :
            /\ partition' = IF "ok" \in DOMAIN r THEN r.ok ELSE None
            /\ result' = [op |-> "select", n |-> n, res |-> r]
    /\ UNCHANGED <<iter, yielded, boot_sector, bpb, fat, dir, open_entries, fd, files,
                   file, delivered>>

MbrNext == \E n \in PartitionNumbers : MbrSelect(n)

SpecMbr == MbrInit /\ [][MbrNext]_vars

\* C27: selecting partition n in 1..4 of a sector 0 with the MBR footer
\* decodes the 16-byte record at offset 446 + 16 * (n - 1); for every other
\* n from_number returns None.
C27_PartitionRecord ==
    result.op = "select"
    => IF result.n \in 1..4
       THEN u16_from_le_bytes(boot_sector, FOOTER_START) = FOOTER_VALUE
            => result.res = Partition_from_info(boot_sector, 446 + (16 * (result.n - 1)))
       ELSE result.res = None

\* C27 witness: partition 2 was selected and the record at offset 446, of
\* partition 1, was decoded, which differs from the record at offset 462.
C27_Witness ==
    /\ result.op = "select"
    /\ result.n = 2
    /\ result.res = Partition_from_info(boot_sector, 446)
    /\ result.res # Partition_from_info(boot_sector, 462)

(***************************************************************************)
(* Stepping a ClusterSectorIterator: next() called again and again on the  *)
(* iterator FatVolume::all_sectors builds for a start cluster.             *)
(***************************************************************************)
ClusterInit ==
    /\ iter = None
    /\ yielded = <<>>
    /\ partition = None
    /\ boot_sector = None
    /\ bpb \in Bpbs
    /\ \E t \in FatCopies(bpb.fat_type) : fat = [copy \in 1..bpb.num_fats |-> t]
    /\ dir = <<>>
    /\ open_entries = EmptyTable
    /\ fd = 0
    /\ files = {}
    /\ file = None
    /\ delivered = 0
    /\ result = NoResult

\* volume.all_sectors(cluster)
ClusterIterStart(cluster) ==
    /\ iter = None
    /\ iter' = all_sectors(bpb, cluster)
    /\ result' = [op |-> "all_sectors", cluster |-> cluster]
    /\ UNCHANGED <<yielded, partition, boot_sector, bpb, fat, dir, open_entries, fd, files,
                   file, delivered>>

\* iter.next(volume): a yielded sector is recorded with the cluster the
\* iterator is in and with whether this call consulted the FAT.
ClusterIterNext ==
    /\ iter # None
    /\ Len(yielded) < MaxYield
    /\ \E r \in {ClusterSectorIterator_next(iter, bpb, fat, 0, 0)} :
        /\ iter' = r.it
        /\ yielded' = IF r.sector = None THEN yielded
                      ELSE Append(yielded, [sector    |-> r.sector.some,
                                            cluster   |-> r.it.current_cluster,
                                            consulted |-> r.ios > 0])
        /\ result' = [op |-> "cluster_next", sector |-> r.sector, consulted |-> r.ios > 0]
    /\ UNCHANGED <<partition, boot_sector, bpb, fat, dir, open_entries, fd, files, file,
                   delivered>>

ClusterNext == (\E cluster \in DataClusters : ClusterIterStart(cluster)) \/ ClusterIterNext

SpecCluster == ClusterInit /\ [][ClusterNext]_vars

\* The number of sectors yielded before the i-th one since the iterator
\* entered the cluster of the i-th one.
PlaceInCluster(i) ==
    i - (CHOOSE j \in 1..i : /\ (j = 1 \/ yielded[j].consulted)
                             /\ \A k \in (j + 1)..i : ~yielded[k].consulted)

\* C28: inside a cluster c the iterator yields the sectors base, base + 1,
\* ..., base + sectors_per_cluster - 1 with
\* base = data_start + (c - 2) * sectors_per_cluster, in this order, and it
\* consults the FAT only when all of them have been yielded.
C28_SectorsOfCluster ==
    /\ \A i \in 1..Len(yielded) :
        /\ PlaceInCluster(i) < bpb.sectors_per_cluster
        /\ yielded[i].sector =
               data_start(bpb) + ((yielded[i].cluster - 2) * bpb.sectors_per_cluster)
                   + PlaceInCluster(i)
        /\ (i > 1 /\ yielded[i].consulted)
               => PlaceInCluster(i - 1) = bpb.sectors_per_cluster - 1
    /\ (result.op = "cluster_next" /\ result.consulted /\ result.sector = None)
           => PlaceInCluster(Len(yielded)) = bpb.sectors_per_cluster - 1

\* C28 witness: with two sectors per cluster the iterator yielded both
\* sectors of cluster 3, consulted the FAT and yielded both sectors of
\* cluster 4.
C28_Witness ==
    /\ bpb.sectors_per_cluster = 2
    /\ Len(yielded) = 4
    /\ yielded[1].cluster = 3
    /\ yielded[2].cluster = 3
    /\ yielded[3].cluster = 4
    /\ yielded[3].consulted
    /\ yielded[4].cluster = 4
    /\ ~yielded[4].consulted

\* C29: a read made when the cumulative counter of the read cache equals
\* its length ceiling (the file size) pulls no sector from the sector
\* iterator and makes no device access.
C29_NoFetchAtCeiling ==
    [][\A len \in BufLens, failAt \in FailAts :
        (/\ ReadRead(len, failAt)
         /\ file.read_cache.total_len = Some(file.read_cache.total_read))
        => /\ ActiveFile_read(open_entries, file, bpb, fat, len, failAt).ios = 0
           /\ file'.read_cache.sectors = file.read_cache.sectors]_vars

\* C29 witness: the 300 bytes of a file have been delivered, one more read
\* returned 0, and the sector iterator has handed out the second sector of
\* the file's cluster.
C29_Witness ==
    /\ file # None
    /\ result.op = "read"
    /\ result.n = 0
    /\ file.dir_entry.file_size = 300
    /\ file.dir_entry.first_cluster = 2
    /\ delivered = 300
    /\ file.read_cache.total_read = 300
    /\ bpb.sectors_per_cluster = 2
    /\ file.read_cache.sectors.current_cluster_sectors.current = data_start(bpb) + 2

\* The places (sector, slot) of the directory slots that hold the short
\* entry an emitted entry was decoded from.
OwnSlots(d, info) ==
    { <<sector, i>> \in (DOMAIN d) \X (1..SlotsPerBlock) :
        /\ ~Attributes_is_long_name(d[sector][i].attr)
        /\ d[sector][i].name = info.name
        /\ d[sector][i].clus_lo = info.first_cluster % 65536 }

\* The FAT entries a delete changed lie in FAT #1 and belong to clusters of
\* the chain the deleted file had.
FatFrame(f1, f2, chain) ==
    \A copy \in DOMAIN f1 : \A c \in DOMAIN f1[copy] :
        f2[copy][c] # f1[copy][c]
            => (copy = 1 /\ \E k \in 1..Len(chain) : chain[k] = c)

\* The directory slots a delete changed are slots of the deleted entry.
DirFrame(d1, d2, info) ==
    \A sector \in DOMAIN d1 \cup DOMAIN d2 : \A i \in 1..SlotsPerBlock :
        SectorSlots(d2, sector)[i] # SectorSlots(d1, sector)[i]
            => <<sector, i>> \in OwnSlots(d1, info)

\* C30: a delete changes on the device only FAT #1 entries of clusters in
\* the chain of the deleted file and the 32-byte directory slot of the
\* deleted entry; every other FAT entry, every other FAT copy and every
\* other directory slot is as it was.
C30_DeleteFrame ==
    [][\A failAt \in DelFailAts :
        DelDelete(failAt)
        => /\ FatFrame(fat, fat', ChainSeq(bpb, fat, file.dir_entry.first_cluster, {}))
           /\ DirFrame(dir, dir', file.dir_entry)]_vars

\* C30 witness: file A of the parent directory was deleted without a
\* device failure, its own slot still carries its name and the slot behind
\* it carries the mark.
C30_Witness ==
    /\ result.op = "delete"
    /\ result.res = "Ok"
    /\ result.entry.name = ParentSlots[3].name
    /\ DirSlot(bpb, dir, 3).name = ParentSlots[3].name
    /\ DirSlot(bpb, dir, 4).name[1] = 94

\* The clusters whose FAT entries are reserved: entry 0 holds the media
\* descriptor, entry 1 the end-of-chain mark.
ReservedClusters == {0, 1}

\* C31: a delete leaves the reserved FAT entries 0 and 1 of every FAT copy
\* as they were, also when the deleted file is empty and its directory
\* entry records first_cluster = 0.
C31_ReservedEntriesKept ==
    [][\A failAt \in DelFailAts :
        DelDelete(failAt)
        => \A copy \in DOMAIN fat : \A c \in ReservedClusters :
               fat'[copy][c] = fat[copy][c]]_vars

\* C31 witness: an empty file whose entry records first_cluster = 0 was
\* deleted without a device failure and FAT #1 entry 0 now reads FREE.
C31_Witness ==
    /\ result.op = "delete"
    /\ result.res = "Ok"
    /\ result.entry.first_cluster = 0
    /\ result.entry.file_size = 0
    /\ fat[1][0] = FREE
    /\ fat[1][1] # FREE

(***************************************************************************)
(* Deleting again after an aborted delete: open_file and File::delete as   *)
(* in SpecDelete, with the result of a delete remembering the chain the    *)
(* file had when the first, aborted delete of the same entry began.        *)
(***************************************************************************)
\* The delete recorded in `res` was aborted by the device and `info` is the
\* entry it was applied to.
AbortedDeleteOf(res, info) ==
    /\ res.op = "delete"
    /\ res.res = "Err"
    /\ res.entry = info

\* volume.open_file(e, mode) with an entry of a fresh iteration; the record
\* of the last delete is kept
RetryOpen(e) ==
    /\ file = None
    /\ \E r \in {open_file(open_entries, fd, bpb, e, "ReadOnly")} :
        /\ open_entries' = r.open_entries
        /\ fd' = r.fd
        /\ file' = r.file
    /\ UNCHANGED <<iter, yielded, partition, boot_sector, bpb, fat, dir, files, delivered, result>>

\* file.delete(volume); the result names the entry, says whether the
\* delete before this one was an aborted delete of the same entry, and
\* names the chain the file had before the first of them
RetryDelete(failAt) ==
    /\ file # None
    /\ \E r \in {File_delete(open_entries, bpb, fat, dir, file, failAt)} :
        /\ open_entries' = r.open_entries
        /\ fat' = r.fat
        /\ dir' = r.dir
        /\ result' = [op |-> "delete", res |-> r.res, entry |-> file.dir_entry,
                      retried |-> AbortedDeleteOf(result, file.dir_entry),
                      chain |-> IF AbortedDeleteOf(result, file.dir_entry)
                                THEN result.chain
                                ELSE ChainSeq(bpb, fat, file.dir_entry.first_cluster, {})]
    /\ file' = None
    /\ UNCHANGED <<iter, yielded, partition, boot_sector, bpb, fd, files, delivered>>

RetryNext ==
    \/ \E e \in {x \in EntrySet(bpb, fat, dir) : x.name \in DelNames} : RetryOpen(e)
    \/ \E failAt \in DelFailAts : RetryDelete(failAt)

SpecRetry == DelInit /\ [][RetryNext]_vars

\* C32: when a delete that follows an aborted delete of the same entry
\* returns Ok, the FAT #1 entry of every cluster of the chain the file had
\* before the aborted delete is FREE.
C32_RetryFreesChain ==
    (/\ result.op = "delete"
     /\ result.retried
     /\ result.res = "Ok")
    => \A i \in 1..Len(result.chain) : OnDiskEntry(bpb, fat, result.chain[i]) = FREE

\* C32 witness: the delete of a file of two clusters was aborted after the
\* first cluster was freed, the delete applied again returned Ok and the
\* second cluster is still allocated.
C32_Witness ==
    /\ result.op = "delete"
    /\ result.retried
    /\ result.res = "Ok"
    /\ Len(result.chain) = 2
    /\ OnDiskEntry(bpb, fat, result.chain[1]) = FREE
    /\ OnDiskEntry(bpb, fat, result.chain[2]) # FREE

(***************************************************************************)
(* Deleting a file whose chain may loop: the FAT entries of the file       *)
(* clusters hold FREE, an end of chain or a pointer to any file cluster,   *)
(* the cluster itself and the clusters before it included.                 *)
(***************************************************************************)
\* The clusters files may occupy: every data cluster but the one of the
\* parent directory.
FileClusters == DataClusters \ {ParentDir.first_cluster}

LoopFatCopies(fat_type) ==
    { t \in [0..MaxCluster -> {FREE, Final(fat_type), Media(fat_type)} \cup DataClusters] :
        /\ t[0] = Media(fat_type)
        /\ t[1] = Final(fat_type)
        /\ t[ParentDir.first_cluster] = Media(fat_type)
        /\ \A c \in FileClusters : t[c] \in {FREE, Final(fat_type)} \cup FileClusters }

LoopInit ==
    /\ iter = None
    /\ yielded = <<>>
    /\ partition = None
    /\ boot_sector = None
    /\ bpb \in Bpbs
    /\ \E t \in LoopFatCopies(bpb.fat_type) : fat = [copy \in 1..bpb.num_fats |-> t]
    /\ dir = ParentImage(bpb)
    /\ open_entries = EmptyTable
    /\ fd = 0
    /\ files = {}
    /\ file = None
    /\ delivered = 0
    /\ result = NoResult

\* The chain from `cluster` leads back to one of its own clusters.
ChainLoops(b, f, cluster) ==
    \E chain \in {ChainSeq(b, f, cluster, {})} :
        /\ chain # <<>>
        /\ \E k \in 1..Len(chain) : OnDiskEntry(b, f, chain[Len(chain)]) = chain[k]

\* How many files one run opens and deletes.
MaxDeletes == 2

\* volume.open_file(e, mode) with an entry of a fresh iteration
LoopOpen(e) ==
    /\ file = None
    /\ fd < MaxDeletes
    /\ \E r \in {open_file(open_entries, fd, bpb, e, "ReadOnly")} :
        /\ open_entries' = r.open_entries
        /\ fd' = r.fd
        /\ file' = r.file
        /\ result' = [op |-> "open_file", res |-> r.res]
    /\ UNCHANGED <<iter, yielded, partition, boot_sector, bpb, fat, dir, files, delivered>>

\* file.delete(volume); the result also names the chain the file had,
\* whether it looped, and the device accesses the chain walk made
LoopDelete(failAt) ==
    /\ file # None
    /\ \E r \in {File_delete(open_entries, bpb, fat, dir, file, failAt)} :
        /\ open_entries' = r.open_entries
        /\ fat' = r.fat
        /\ dir' = r.dir
        /\ result' = [op |-> "delete", res |-> r.res, entry |-> file.dir_entry,
                      chain |-> ChainSeq(bpb, fat, file.dir_entry.first_cluster, {}),
                      looped |-> ChainLoops(bpb, fat, file.dir_entry.first_cluster),
                      ios |-> FreeChain(bpb, fat, file.dir_entry.first_cluster, 0, failAt).ios]
    /\ file' = None
    /\ UNCHANGED <<iter, yielded, partition, boot_sector, bpb, fd, files, delivered>>

LoopNext ==
    \/ \E e \in {x \in EntrySet(bpb, fat, dir) : x.name \in DelNames} : LoopOpen(e)
    \/ \E failAt \in DelFailAts : LoopDelete(failAt)

SpecLoop == LoopInit /\ [][LoopNext]_vars

\* The device accesses of the longest chain walk: three for every file
\* cluster and three more for the cluster a loop leads back to.
WalkBound == 3 * (Cardinality(FileClusters) + 1)

\* C33: the chain walk of every delete ends, for every FAT content, a
\* chain that loops back onto one of its earlier clusters included, after at
\* most three device accesses for each file cluster and three more.
C33_DeleteTerminates ==
    result.op = "delete" => result.ios <= WalkBound

\* C33 witness: a file whose chain of two clusters loops back onto its
\* first cluster was deleted: delete returned Ok after nine device accesses
\* of the walk and both clusters are FREE.
C33_Witness ==
    /\ result.op = "delete"
    /\ result.res = "Ok"
    /\ result.looped
    /\ Len(result.chain) = 2
    /\ result.ios = 9
    /\ \A i \in 1..Len(result.chain) : OnDiskEntry(bpb, fat, result.chain[i]) = FREE

(***************************************************************************)
(* DirIter::next pass by pass: every pass of its loop is a step, over      *)
(* directories whose cluster chain may loop and whose clusters hold free   *)
(* slots, long-name slots, live entries or the end of the directory.       *)
(***************************************************************************)
\* How many calls of next() one run makes.
MaxCalls == 2

\* One pass of the loop of DirIter::next: the iterator and the long-name
\* accumulator after it, how the pass left the loop body ("continue",
\* "none" for break None and return None, "some" for return Some), the
\* entry returned, the device reads made and the sector fetched, if any.
DirIter_pass(it, b, f, d, long_name_data) ==
    Only({
        IF ~md.ok
        THEN [it |-> [it EXCEPT !.block_cache = md.cache], lfn |-> long_name_data,
              outcome |-> "none", entry |-> None, ios |-> md.ios, fetched |-> None]
        ELSE Only({
            IF ~(rd.n = 32 /\ rd.sector # None)
            THEN [it |-> [it EXCEPT !.block_cache = rd.cache], lfn |-> long_name_data,
                  outcome |-> "none", entry |-> None, ios |-> md.ios, fetched |-> fetched]
            ELSE Only({
                IF Attributes_is_long_name(raw.attr)
                THEN [it |-> [block_cache |-> rd.cache, total_entries_read |-> n],
                      lfn |-> handle_lfn(raw, long_name_data),
                      outcome |-> "continue", entry |-> None, ios |-> md.ios,
                      fetched |-> fetched]
                ELSE Only({
                    IF info = None \/ get_free_status(info.some).all_following_free
                    THEN [it |-> [block_cache |-> rd.cache, total_entries_read |-> n],
                          lfn |-> None, outcome |-> "none", entry |-> None,
                          ios |-> md.ios, fetched |-> fetched]
                    ELSE IF get_free_status(info.some).this_entry_free
                    THEN [it |-> [block_cache |-> rd.cache, total_entries_read |-> n],
                          lfn |-> None, outcome |-> "continue", entry |-> None,
                          ios |-> md.ios, fetched |-> fetched]
                    ELSE [it |-> [block_cache |-> rd.cache, total_entries_read |-> n],
                          lfn |-> None, outcome |-> "some", entry |-> info,
                          ios |-> md.ios, fetched |-> fetched]
                    : info \in {DirEntryInfo_new(
                                    IF long_name_data = None THEN LongNameRaw_zero
                                    ELSE long_name_data.some,
                                    raw, b.fat_type,
                                    [sector |-> rd.sector.some,
                                     byte_offset |-> (n * 32) % Block_LEN])} })
                : raw \in {SectorSlots(d, rd.sector.some)[(rd.from \div 32) + 1]},
                  n \in {it.total_entries_read + 1} })
            : rd \in {BlockByteCache_read(md.cache, 32)},
              fetched \in {IF all_cached_bytes_read(it.block_cache)
                           THEN Some([sectors |-> md.cache.sectors,
                                      sector |-> md.cache.current_cache])
                           ELSE None} })
        : md \in {more_data(it.block_cache, b, f, 0, 0)} })

\* What the clusters of the directory hold: free slots only, long-name
\* slots only, a live entry in the first slot of every sector and free
\* slots behind it, or zeros (the end of the directory).
ClusterKinds == {"free", "lfn", "live", "end"}

SlotsOfKind(kind, sector) ==
    [i \in 1..SlotsPerBlock |->
        CASE kind = "free" -> ShortSlot(229, ARCHIVE, 0, 0)
          [] kind = "lfn"  -> LongSlot(1, 100)
          [] kind = "live" -> IF i = 1 THEN ShortSlot(64 + sector, ARCHIVE, 0, 0)
                              ELSE ShortSlot(229, ARCHIVE, 0, 0)
          [] kind = "end"  -> ZeroSlot]

\* The sectors of the data clusters and the cluster a sector belongs to.
DataSectorsOf(b) ==
    data_start(b) .. (data_start(b) + (Cardinality(DataClusters) * b.sectors_per_cluster) - 1)
ClusterOfSector(b, sector) == ((sector - data_start(b)) \div b.sectors_per_cluster) + 2

SlotDirImages(b) ==
    { [s \in DataSectorsOf(b) |-> SlotsOfKind(kinds[ClusterOfSector(b, s)], s)] :
        kinds \in [DataClusters -> ClusterKinds] }

\* The FAT images in which every data cluster has a successor or ends the
\* chain; the successor may be the first data cluster (a cycle).
SlotFatCopies(fat_type) ==
    { t \in FatCopies(fat_type) :
        \A c \in DataClusters : t[c] \notin {FREE, Media(fat_type)} }

NoCall == [op |-> "none", calls |-> 0, reads |-> 0, visited |-> {}, repeated |-> FALSE,
           lfn |-> None, entry |-> None]

SlotInit ==
    /\ iter = None
    /\ yielded = <<>>
    /\ partition = None
    /\ boot_sector = None
    /\ bpb \in Bpbs
    /\ \E t \in SlotFatCopies(bpb.fat_type) : fat = [copy \in 1..bpb.num_fats |-> t]
    /\ dir \in SlotDirImages(bpb)
    /\ open_entries = EmptyTable
    /\ fd = 0
    /\ files = {}
    /\ file = None
    /\ delivered = 0
    /\ result = NoCall

\* test_dir.iter_subdir(volume)
SlotIterStart ==
    /\ iter = None
    /\ iter' = iter_subdir(ParentDir, bpb).some
    /\ result' = [NoCall EXCEPT !.op = "iter_subdir"]
    /\ UNCHANGED <<yielded, partition, boot_sector, bpb, fat, dir, open_entries, fd, files,
                   file, delivered>>

\* iter.next() is entered: the long-name accumulator starts as None
SlotCall ==
    /\ iter # None
    /\ result.op \in {"iter_subdir", "returned"}
    /\ result.calls < MaxCalls
    /\ result' = [NoCall EXCEPT !.op = "running", !.calls = result.calls + 1]
    /\ UNCHANGED <<iter, yielded, partition, boot_sector, bpb, fat, dir, open_entries, fd,
                   files, file, delivered>>

\* one pass of the loop of the running call; the call records the device
\* reads it made, the iterator states in which it fetched a sector, and
\* whether it has fetched a sector in a state it fetched one in before.  A
\* call that has come back to such a state is not followed further: the
\* device being as it was, it repeats its passes from there for ever.
SlotPass ==
    /\ result.op = "running"
    /\ ~result.repeated
    /\ \E r \in {DirIter_pass(iter, bpb, fat, dir, result.lfn)} :
        /\ iter' = r.it
        /\ yielded' = IF r.outcome = "some"
                      THEN Append(yielded, [entry |-> r.entry.some,
                                            slot  |-> r.it.total_entries_read])
                      ELSE yielded
        /\ result' = [op       |-> IF r.outcome = "continue" THEN "running" ELSE "returned",
                      calls    |-> result.calls,
                      reads    |-> result.reads + r.ios,
                      visited  |-> IF r.fetched = None THEN result.visited
                                   ELSE result.visited \cup {r.fetched.some},
                      repeated |-> r.fetched # None /\ r.fetched.some \in result.visited,
                      lfn      |-> r.lfn,
                      entry    |-> r.entry]
    /\ UNCHANGED <<partition, boot_sector, bpb, fat, dir, open_entries, fd, files, file,
                   delivered>>

SlotNext == SlotIterStart \/ SlotCall \/ SlotPass

SpecSlot == SlotInit /\ [][SlotNext]_vars

\* C34: every call of DirIter::next returns after finitely many device
\* reads: no call that is still in its loop fetches a sector with the
\* iterator in a state in which the same call fetched that sector before
\* (from such a state the passes repeat without end).
C34_NextReturns ==
    ~(result.op = "running" /\ result.repeated)

\* C34 witness: the chain of the directory is cluster 2 pointing at itself
\* and the cluster holds free slots only: the first call of next() has read
\* every slot of the cluster, has followed the FAT back to cluster 2 and is
\* in its loop again on the first sector, having returned nothing.
C34_Witness ==
    /\ result.op = "running"
    /\ result.repeated
    /\ result.calls = 1
    /\ yielded = <<>>
    /\ OnDiskEntry(bpb, fat, ParentDir.first_cluster) = ParentDir.first_cluster
    /\ \A s \in DOMAIN dir :
            ClusterOfSector(bpb, s) = ParentDir.first_cluster
                => \A i \in 1..SlotsPerBlock : dir[s][i].name[1] = 229
    /\ result.reads = bpb.sectors_per_cluster + 2

(***************************************************************************)
(* ClusterSectorIterator::next on a device whose FAT read may fail in one  *)
(* call and succeed in the next.                                           *)
(***************************************************************************)
\* iter.next(volume) with the device failing its next access (failAt = 1)
\* or not (failAt = 0); the result says whether an earlier call of this
\* iterator returned None and whether this call met the device error.
FuseNext(failAt) ==
    /\ iter # None
    /\ Len(yielded) < MaxYield
    /\ \E r \in {ClusterSectorIterator_next(iter, bpb, fat, 0, failAt)} :
        /\ iter' = r.it
        /\ yielded' = IF r.sector = None THEN yielded
                      ELSE Append(yielded, [sector    |-> r.sector.some,
                                            cluster   |-> r.it.current_cluster,
                                            consulted |-> r.ios > 0])
        /\ result' = [op |-> "cluster_next", sector |-> r.sector,
                      failed |-> r.ios > 0 /\ AccessFails(0, failAt),
                      none_before |-> /\ result.op = "cluster_next"
                                      /\ (result.sector = None \/ result.none_before)]
    /\ UNCHANGED <<partition, boot_sector, bpb, fat, dir, open_entries, fd, files, file,
                   delivered>>

FuseStep == (\E cluster \in DataClusters : ClusterIterStart(cluster)) \/ (\E failAt \in FailAts : FuseNext(failAt))

SpecFuse == ClusterInit /\ [][FuseStep]_vars

\* C35: a call of ClusterSectorIterator::next that follows a call of the
\* same iterator that returned None returns None, whether the earlier None
\* came from the end of the chain or from a device error.
C35_NoneIsFinal ==
    (result.op = "cluster_next" /\ result.none_before) => result.sector = None

\* C35 witness: a call returned None (the FAT read failed) and the next
\* call, on a device that answers, yielded the first sector of the next
\* cluster.
C35_Witness ==
    /\ result.op = "cluster_next"
    /\ result.none_before
    /\ ~result.failed
    /\ result.sector # None
    /\ Len(yielded) > bpb.sectors_per_cluster
    /\ yielded[Len(yielded)].consulted
    /\ yielded[Len(yielded)].sector = result.sector.some

(***************************************************************************)
(* Opening several files of one directory, two empty files among them.     *)
(***************************************************************************)
\* The files of the parent directory: A, the empty files B and C, and D.
FileEntries ==
    { e \in EntrySet(Fat16Bpb,
                     [copy \in 1..Fat16Bpb.num_fats |-> SingleClusterFat(Fat16Bpb.fat_type)],
                     ParentImage(Fat16Bpb)) : e.name \in DelNames }

\* volume.open_file(e, mode) with an entry a directory iteration yielded;
\* the result names the entry
EntryOpen(e) ==
    /\ \E r \in {open_file(open_entries, fd, bpb, e, "ReadOnly")} :
        /\ r.res = "Ok" => \E h \in Handles : files[h] = None
        /\ open_entries' = r.open_entries
        /\ fd' = r.fd
        /\ files' = IF r.res = "Ok"
                    THEN [files EXCEPT ![FirstFreeHandle(files)] =
                            [file |-> r.file, closed |-> FALSE]]
                    ELSE files
        /\ result' = [op |-> "open_file", res |-> r.res, entry |-> e]
    /\ UNCHANGED <<iter, yielded, partition, boot_sector, bpb, fat, dir, file, delivered>>

EntryNext ==
    \/ \E e \in FileEntries : EntryOpen(e)
    \/ \E h \in Handles : FileClose(h)

SpecEntry == OpenInit /\ [][EntryNext]_vars

\* C36: open_file returns AlreadyOpen only for an entry whose own directory
\* slot is the slot of an entry of the open-handle table: a file whose slot
\* is not open, an empty file next to another open empty file included, is
\* not refused as AlreadyOpen.
C36_AlreadyOpenSameSlot ==
    [][\A e \in FileEntries :
        (EntryOpen(e) /\ result'.res = "AlreadyOpen")
        => \E i \in Occupied(open_entries) :
               open_entries[i].info.location = e.location]_vars

\* C36 witness: the empty file B is the only open file, a slot of the table
\* is free, and open_file on the empty file C returned AlreadyOpen.
C36_Witness ==
    /\ result.op = "open_file"
    /\ result.res = "AlreadyOpen"
    /\ result.entry.name = ParentSlots[6].name
    /\ result.entry.first_cluster = 0
    /\ Cardinality(Occupied(open_entries)) = 1
    /\ \A i \in Occupied(open_entries) :
            /\ open_entries[i].info.name = ParentSlots[5].name
            /\ open_entries[i].info.location # result.entry.location

(***************************************************************************)
(* The bytes a streaming read delivers: every copy into the caller's       *)
(* buffer is recorded by the place of its bytes on the device, `yielded`   *)
(* holding the runs of consecutive bytes delivered since the file was      *)
(* opened.                                                                 *)
(***************************************************************************)
\* The runs after the bytes of `segs` were delivered: bytes that continue
\* the last run lengthen it, all others start a run.
RECURSIVE Delivered(_, _)
Delivered(runs, segs) ==
    IF segs = <<>> THEN runs
    ELSE Delivered(
            IF /\ runs # <<>>
               /\ runs[Len(runs)].sector = segs[1].sector
               /\ runs[Len(runs)].to = segs[1].from
            THEN [runs EXCEPT ![Len(runs)].to = segs[1].from + segs[1].n]
            ELSE Append(runs, [sector |-> segs[1].sector, from |-> segs[1].from,
                               to |-> segs[1].from + segs[1].n]),
            Tail(segs))

\* file.activate(volume).read(data) with data.len() = len
BytesRead(len, failAt) ==
    /\ file # None
    /\ \E r \in {ActiveFile_read(open_entries, file, bpb, fat, len, failAt)} :
        /\ file' = r.file
        /\ delivered' = delivered + r.n
        /\ yielded' = Delivered(yielded, r.segs)
        /\ result' = [op |-> "read", res |-> r.res, n |-> r.n, len |-> len,
                      failed |-> \/ (failAt # 0 /\ r.ios >= failAt)
                                 \/ (result.op = "read" /\ result.failed),
                      calls |-> IF result.op = "read" THEN Min(result.calls + 1, 3) ELSE 1]
    /\ UNCHANGED <<iter, partition, boot_sector, bpb, fat, dir, open_entries, fd, files>>

BytesNext ==
    \/ \E e \in ReadEntries : ReadOpen(e)
    \/ \E len \in BufLens, failAt \in FailAts : BytesRead(len, failAt)

SpecBytes == ReadInit /\ [][BytesNext]_vars

\* The k-th sector (from 0) of the chain that starts at `cluster`, as the
\* FAT format defines the chain; None behind its end.
RECURSIVE SectorAt(_, _, _, _)
SectorAt(b, f, cluster, k) ==
    IF cluster \notin DataClusters THEN None
    ELSE IF k < b.sectors_per_cluster
    THEN Some(data_start(b) + ((cluster - 2) * b.sectors_per_cluster) + k)
    ELSE IF OnDiskEnd(b, OnDiskEntry(b, f, cluster)) THEN None
    ELSE SectorAt(b, f, OnDiskEntry(b, f, cluster), k - b.sectors_per_cluster)

\* The runs of the first n bytes of the concatenation of the sectors of the
\* chain of the open file, in chain order.
FirstBytes(n) ==
    [i \in 1..((n + Block_LEN - 1) \div Block_LEN) |->
        [sector |-> SectorAt(bpb, fat, file.dir_entry.first_cluster, i - 1).some,
         from   |-> 0,
         to     |-> Min(Block_LEN, n - ((i - 1) * Block_LEN))]]

RegionSectors(raw) ==
    raw.rsvd_sec_cnt
        + (raw.num_fats * (IF raw.fat_sz_16 = 0 THEN U32_value(raw.fat_sz_32)
                           ELSE raw.fat_sz_16))
        + compute_root_dir_sectors(raw.root_ent_cnt, raw.bytes_per_sec)

\* C38: for a sector 0 whose reserved sectors, FAT copies and root region
\* together exceed its total sector count, BiosParameterBlock::new returns
\* a BpbError: it neither returns a parameter block computed from a wrapped
\* difference nor stops on a u32 underflow.
C38_RegionsExceedTotal ==
    (result.op = "new" /\ RegionSectors(boot_sector) > TotalSectors(boot_sector))
    => result.res \notin {"Ok", "Panic"}

\* C38 witness: in a build with overflow checks the subtraction stopped the
\* program on a sector 0 of 100 sectors in total whose two FAT copies take
\* 2048 sectors and whose other fields are all accepted.
C38_Witness ==
    /\ result.op = "new"
    /\ result.build = "overflow-checks"
    /\ result.res = "Panic"
    /\ TotalSectors(boot_sector) = 100
    /\ RegionSectors(boot_sector) = 2049
    /\ boot_sector.signature_word = SIGNATURE
    /\ boot_sector.root_clus = <<0, 2>>
    /\ boot_sector.bytes_per_sec = 512
    /\ boot_sector.media = 248
    /\ boot_sector.fs_ver = 0
    /\ boot_sector.bk_boot_sec = 0

(***************************************************************************)
(* get_fat_entry on volumes of every sector size BiosParameterBlock::new   *)
(* accepts.  The block device hands out blocks of Block::LEN = 512 bytes.  *)
(***************************************************************************)
\* Sector 0 images of a FAT16-sized and a FAT32-sized volume with each of
\* the sector sizes the parser accepts.
WideBootSectors ==
    { [bytes_per_sec |-> bps, sec_per_clu |-> 1,
       rsvd_sec_cnt |-> IF big THEN 32 ELSE 1, num_fats |-> 2,
       root_ent_cnt |-> IF big THEN 0 ELSE 512,
       tot_sec_16 |-> IF big THEN 0 ELSE 20000, media |-> 248,
       fat_sz_16 |-> IF big THEN 0 ELSE 80,
       tot_sec_32 |-> IF big THEN <<8, 0>> ELSE <<0, 0>>,
       fat_sz_32 |-> IF big THEN <<0, 1024>> ELSE <<0, 0>>,
       fs_ver |-> 0, root_clus |-> <<0, 2>>, bk_boot_sec |-> 6,
       signature_word |-> SIGNATURE] :
        bps \in {512, 1024, 2048, 4096}, big \in BOOLEAN }

\* Cluster indices on both sides of the places where the byte offset of
\* the entry passes a multiple of 512.
WideClusters == {0, 2, 127, 128, 255, 256, 511, 512, 1023, 1024, 2047, 2048}

WideInit ==
    /\ iter = None
    /\ yielded = <<>>
    /\ partition = None
    /\ boot_sector \in WideBootSectors
    /\ bpb = None
    /\ fat = [copy \in 1..boot_sector.num_fats |->
                SingleClusterFat(IF boot_sector.fat_sz_16 = 0 THEN "Fat32" ELSE "Fat16")]
    /\ dir = <<>>
    /\ open_entries = EmptyTable
    /\ fd = 0
    /\ files = {}
    /\ file = None
    /\ delivered = 0
    /\ result = NoResult

\* BiosParameterBlock::new(block) on the sector 0 read from the device
WideNew(build) ==
    /\ bpb = None
    /\ \E r \in {BiosParameterBlock_new(boot_sector, build)} :
        /\ bpb' = IF "ok" \in DOMAIN r THEN r.ok ELSE None
        /\ result' = [op |-> "new", build |-> build,
                      res |-> IF "ok" \in DOMAIN r THEN "Ok"
                              ELSE IF "err" \in DOMAIN r THEN r.err ELSE "Panic"]
    /\ UNCHANGED <<iter, yielded, partition, boot_sector, fat, dir, open_entries, fd, files, file,
                   delivered>>

\* volume.get_fat_entry(fat_number, cluster); the result names the byte
\* offset at which the entry is decoded in the block that was read
WideGet(fat_number, cluster) ==
    /\ bpb # None
    /\ \E r \in {get_fat_entry(bpb, fat, fat_number, cluster)} :
        result' = [op |-> "get_fat_entry", cluster |-> cluster,
                   entry_offset |-> FatEntryLocation(bpb, fat_number, cluster).byte_offset,
                   res |-> IF r = Err THEN "Err"
                           ELSE IF "panic" \in DOMAIN r THEN "Panic" ELSE "Ok"]
    /\ UNCHANGED <<iter, yielded, partition, boot_sector, bpb, fat, dir, open_entries, fd, files,
                   file, delivered>>

WideNext ==
    \/ \E build \in Builds : WideNew(build)
    \/ \E fat_number \in 1..2, cluster \in WideClusters : WideGet(fat_number, cluster)

SpecWide == WideInit /\ [][WideNext]_vars

\* C39: on every volume BiosParameterBlock::new accepted, with 512, 1024,
\* 2048 or 4096 bytes per sector, and for every cluster index, get_fat_entry
\* decodes the entry inside the 512-byte block it read: the byte offset of
\* the entry plus its width is at most 512 and the call does not panic.
C39_EntryInsideBlock ==
    result.op = "get_fat_entry"
    => /\ result.entry_offset + EntryWidth(bpb.fat_type) <= Block_LEN
       /\ result.res # "Panic"

\* C39 witness: on a FAT16 volume of 1024 bytes per sector the entry of
\* cluster 256 was looked for at byte offset 512 of the block and the
\* slice panicked.
C39_Witness ==
    /\ result.op = "get_fat_entry"
    /\ bpb.fat_type = "Fat16"
    /\ bpb.bytes_per_sector = 1024
    /\ result.cluster = 256
    /\ result.entry_offset = 512
    /\ result.res = "Panic"

\* ---------------------------------------------------------------------
\* SdMmcSpi::acquire_with_opts: the card initialisation sequence.  The card
\* is the environment: every command is answered with one of Responses.
\* ---------------------------------------------------------------------

\* the attempt limit of the loops of acquire_with_opts
MaxAttempts == 32

\* what card_command can return: an R1 byte, or an error
R1Bytes == {"R1_IDLE_STATE", "R1_READY_STATE", "R1_ILLEGAL_COMMAND|R1_IDLE_STATE"}

Responses == R1Bytes \cup {"TimeoutCommand", "Transport"}

\* the bytes receive() hands back after CMD8 and CMD58 (the ones the code tests)
StatusBytes == {"0xAA", "0xC0", "0x00", "Transport"}

\* card_command(command, arg) as acquire_with_opts sees it: Ok(r1), or
\* Err(TimeoutCommand(command)) when no answer came within 512 bytes, or the
\* error of the transfer
card_command(command, resp) ==
    IF resp = "TimeoutCommand" THEN [err |-> "TimeoutCommand(" \o command \o ")"]
    ELSE IF resp = "Transport" THEN [err |-> "Transport"]
    ELSE [ok |-> resp]

IsErr(r) == "err" \in DOMAIN r

\* the record of a call of acquire_with_opts that is under way or over
Acquire(pc, require_crc, attempts, sent, cmd0_idle, card_type, res) ==
    [op |-> "acquire", pc |-> pc, require_crc |-> require_crc, attempts |-> attempts,
     sent |-> sent, cmd0_idle |-> cmd0_idle, card_type |-> card_type, res |-> res]

\* the call returns Err(e)
AcquireErr(r, sent, e) ==
    Acquire("done", r.require_crc, r.attempts, sent, r.cmd0_idle, r.card_type, e)

AcqInit ==
    /\ iter = None
    /\ yielded = <<>>
    /\ partition = None
    /\ boot_sector \in WideBootSectors
    /\ bpb = None
    /\ fat = [copy \in 1..boot_sector.num_fats |->
                SingleClusterFat(IF boot_sector.fat_sz_16 = 0 THEN "Fat32" ELSE "Fat16")]
    /\ dir = <<>>
    /\ open_entries = EmptyTable
    /\ fd = 0
    /\ files = {}
    /\ file = None
    /\ delivered = 0
    /\ result = NoResult

\* acquire_with_opts(options) up to the first loop: chip select high, ten
\* dummy bytes, SdMmcSpiBusy::new, enable_spi_mode_attempts = 0
AcquireStart(require_crc, ok) ==
    /\ result = NoResult
    /\ result' = IF ok
                 THEN Acquire("spi_mode", require_crc, 0, {}, FALSE, "SD1", "Running")
                 ELSE Acquire("done", require_crc, 0, {}, FALSE, "SD1", "Transport")
    /\ UNCHANGED <<iter, yielded, partition, boot_sector, bpb, fat, dir, open_entries, fd, files,
                   file, delivered>>

\* one test of `while enable_spi_mode_attempts > 0` and, when it holds, one
\* pass of the loop body
EnterSpiMode(resp) ==
    /\ result.op = "acquire"
    /\ result.pc = "spi_mode"
    /\ result' =
         IF ~(result.attempts > 0)
         THEN [result EXCEPT !.pc = "crc"]
         ELSE IF result.attempts > MaxAttempts
         THEN AcquireErr(result, result.sent, "TimeoutCommand(CMD0)")
         ELSE Only({ IF r = [err |-> "TimeoutCommand(CMD0)"]
                     THEN [result EXCEPT !.sent = @ \cup {"CMD0"}, !.attempts = @ - 1]
                     ELSE IF IsErr(r)
                     THEN AcquireErr(result, result.sent \cup {"CMD0"}, r.err)
                     ELSE IF r.ok = "R1_IDLE_STATE"
                     THEN [result EXCEPT !.sent = @ \cup {"CMD0"}, !.cmd0_idle = TRUE,
                                         !.pc = "crc"]
                     ELSE [result EXCEPT !.sent = @ \cup {"CMD0"}]
                     : r \in {card_command("CMD0", resp)} })
    /\ UNCHANGED <<iter, yielded, partition, boot_sector, bpb, fat, dir, open_entries, fd, files,
                   file, delivered>>

\* card_command(CMD59, 1) and the test of its answer; card_version_attempts = 0
EnableCrc(resp) ==
    /\ result.op = "acquire"
    /\ result.pc = "crc"
    /\ result' =
         Only({ IF IsErr(r)
                THEN AcquireErr(result, result.sent \cup {"CMD59"}, r.err)
                ELSE IF r.ok # "R1_IDLE_STATE" /\ result.require_crc
                THEN AcquireErr(result, result.sent \cup {"CMD59"}, "CantEnableCRC")
                ELSE [result EXCEPT !.sent = @ \cup {"CMD59"}, !.pc = "version",
                                    !.attempts = 0]
                : r \in {card_command("CMD59", resp)} })
    /\ UNCHANGED <<iter, yielded, partition, boot_sector, bpb, fat, dir, open_entries, fd, files,
                   file, delivered>>

\* one pass of the card version loop: CMD8, then four bytes of which the
\* last is the status
CheckVersion(resp, status) ==
    /\ result.op = "acquire"
    /\ result.pc = "version"
    /\ result' =
         IF result.attempts + 1 > MaxAttempts
         THEN AcquireErr([result EXCEPT !.attempts = @ + 1], result.sent, "TimeoutCommand(CMD8)")
         ELSE Only({ IF IsErr(r)
                     THEN AcquireErr(n, n.sent, r.err)
                     ELSE IF r.ok = "R1_ILLEGAL_COMMAND|R1_IDLE_STATE"
                     THEN [n EXCEPT !.card_type = "SD1", !.pc = "capacity", !.attempts = 0]
                     ELSE IF status = "Transport"
                     THEN AcquireErr(n, n.sent, "Transport")
                     ELSE IF status = "0xAA"
                     THEN [n EXCEPT !.card_type = "SD2", !.pc = "capacity", !.attempts = 0]
                     ELSE n
                     : r \in {card_command("CMD8", resp)},
                       n \in {[result EXCEPT !.attempts = @ + 1, !.sent = @ \cup {"CMD8"}]} })
    /\ UNCHANGED <<iter, yielded, partition, boot_sector, bpb, fat, dir, open_entries, fd, files,
                   file, delivered>>

\* one pass of the capacity loop: card_acmd(ACMD41, arg) is CMD55 then ACMD41
CapacityCommand(resp55, resp) ==
    /\ result.op = "acquire"
    /\ result.pc = "capacity"
    /\ result' =
         Only({ IF IsErr(p)
                THEN AcquireErr(n, n.sent, p.err)
                ELSE IF IsErr(r)
                THEN AcquireErr(n, n.sent \cup {"ACMD41"}, r.err)
                ELSE IF r.ok = "R1_READY_STATE"
                THEN IF n.card_type = "SD2"
                     THEN [n EXCEPT !.sent = @ \cup {"ACMD41"}, !.pc = "ocr"]
                     ELSE [n EXCEPT !.sent = @ \cup {"ACMD41"}, !.pc = "done", !.res = "Ok"]
                ELSE IF n.attempts > MaxAttempts
                THEN AcquireErr(n, n.sent \cup {"ACMD41"}, "TimeoutACommand(ACMD41)")
                ELSE [n EXCEPT !.sent = @ \cup {"ACMD41"}]
                : p \in {card_command("CMD55", resp55)},
                  r \in {card_command("ACMD41", resp)},
                  n \in {[result EXCEPT !.attempts = @ + 1, !.sent = @ \cup {"CMD55"}]} })
    /\ UNCHANGED <<iter, yielded, partition, boot_sector, bpb, fat, dir, open_entries, fd, files,
                   file, delivered>>

\* an SD2 card: CMD58 and the first byte of the OCR
ReadOcr(resp, ocr) ==
    /\ result.op = "acquire"
    /\ result.pc = "ocr"
    /\ result' =
         Only({ IF IsErr(r)
                THEN AcquireErr(n, n.sent, r.err)
                ELSE IF r.ok # "R1_READY_STATE"
                THEN AcquireErr(n, n.sent, "Cmd58Error")
                ELSE IF ocr = "Transport"
                THEN AcquireErr(n, n.sent, "Transport")
                ELSE [n EXCEPT !.card_type = IF ocr = "0xC0" THEN "SDHC" ELSE @,
                               !.pc = "done", !.res = "Ok"]
                : r \in {card_command("CMD58", resp)},
                  n \in {[result EXCEPT !.sent = @ \cup {"CMD58"}]} })
    /\ UNCHANGED <<iter, yielded, partition, boot_sector, bpb, fat, dir, open_entries, fd, files,
                   file, delivered>>

AcquireNext ==
    \/ \E require_crc \in BOOLEAN, ok \in BOOLEAN : AcquireStart(require_crc, ok)
    \/ \E resp \in Responses : EnterSpiMode(resp)
    \/ \E resp \in Responses : EnableCrc(resp)
    \/ \E resp \in Responses, status \in StatusBytes : CheckVersion(resp, status)
    \/ \E resp55 \in Responses, resp \in Responses : CapacityCommand(resp55, resp)
    \/ \E resp \in Responses, ocr \in StatusBytes : ReadOcr(resp, ocr)

SpecAcquire == AcqInit /\ [][AcquireNext]_vars

\* C40: whenever acquire_with_opts has sent CMD59 or CMD8, it sent CMD0
\* before and a CMD0 was answered with R1_IDLE_STATE; and it returns
\* TimeoutCommand(CMD0) only after it sent CMD0.
C40_Cmd0BeforeCrc ==
    result.op = "acquire"
    => /\ (result.sent \cap {"CMD59", "CMD8"} # {}
           => "CMD0" \in result.sent /\ result.cmd0_idle)
       /\ (result.res = "TimeoutCommand(CMD0)" => "CMD0" \in result.sent)

\* C40 witness: the call came back Ok having sent CMD59, CMD8, CMD55 and
\* ACMD41 and no CMD0 at all.
C40_Witness ==
    /\ result.op = "acquire"
    /\ result.pc = "done"
    /\ result.res = "Ok"
    /\ result.sent = {"CMD59", "CMD8", "CMD55", "ACMD41"}
    /\ ~result.cmd0_idle

====
